---------------------------- MODULE Spec2Model ----------------------------
(***************************************************************************)
(* Model of the ingestion and retrieval pipeline of the repository:        *)
(*   src/src/rag/document_processor.py  (DocumentChunker)                  *)
(*   src/src/rag/indexer.py             (VectorStoreIndexer)               *)
(*   src/src/rag/retriever.py           (Retriever)                        *)
(* Strings are sequences of one-character strings, so that split, join and *)
(* slicing are computed the way the Python code computes them.             *)
(***************************************************************************)
EXTENDS Integers, Sequences, FiniteSets, TLC

(***************************************************************************)
(* Bounds of the chunker model.                                            *)
(***************************************************************************)
MaxTextLen == 4
MaxChunkSize == 3
MaxOverlap == 2
MaxChunkCalls == 2

Space == " "
Newline == "\n"
Chars == {"a", "b", Space, Newline}

\* the separators a DocumentChunker is built with: the default "\n", and " "
Separators == {<<Newline>>, <<Space>>}

RECURSIVE SeqsUpTo(_, _)
SeqsUpTo(S, n) ==
    IF n = 0 THEN {<<>>}
    ELSE LET shorter == SeqsUpTo(S, n - 1)
         IN shorter \cup {Append(s, c) : s \in {t \in shorter : Len(t) = n - 1}, c \in S}

Texts == SeqsUpTo(Chars, MaxTextLen)

(***************************************************************************)
(* Python string primitives.                                               *)
(***************************************************************************)
\* text[pos:].startswith(sep), pos 1-based
StartsWithAt(text, pos, sep) ==
    /\ pos + Len(sep) - 1 <= Len(text)
    /\ \A k \in 1..Len(sep) : text[pos + k - 1] = sep[k]

RECURSIVE SplitFrom(_, _, _, _, _)
SplitFrom(text, sep, pos, cur, acc) ==
    IF pos > Len(text) THEN Append(acc, cur)
    ELSE IF StartsWithAt(text, pos, sep)
         THEN SplitFrom(text, sep, pos + Len(sep), <<>>, Append(acc, cur))
         ELSE SplitFrom(text, sep, pos + 1, Append(cur, text[pos]), acc)

\* text.split(sep): left to right, non-overlapping; "" splits to [""]
PySplit(text, sep) == SplitFrom(text, sep, 1, <<>>, <<>>)

RECURSIVE PyJoin(_, _)
\* sep.join(parts)
PyJoin(sep, parts) ==
    IF Len(parts) = 0 THEN <<>>
    ELSE IF Len(parts) = 1 THEN parts[1]
         ELSE parts[1] \o sep \o PyJoin(sep, Tail(parts))

RECURSIVE SumLen(_)
\* sum(len(s) for s in parts)
SumLen(parts) ==
    IF Len(parts) = 0 THEN 0 ELSE Len(parts[1]) + SumLen(Tail(parts))

\* max(0, x)
Max0(x) == IF x > 0 THEN x ELSE 0

(***************************************************************************)
(* str.split() without arguments: the runs of non-whitespace characters.   *)
(***************************************************************************)
IsWhite(c) == c \in {Space, Newline}

RECURSIVE WordsFrom(_, _, _)
\* the maximal runs of non-whitespace characters of a text, in order
WordsFrom(text, cur, acc) ==
    IF Len(text) = 0
    THEN IF Len(cur) > 0 THEN Append(acc, cur) ELSE acc
    ELSE IF IsWhite(text[1])
         THEN WordsFrom(Tail(text), <<>>, IF Len(cur) > 0 THEN Append(acc, cur) ELSE acc)
         ELSE WordsFrom(Tail(text), Append(cur, text[1]), acc)

WordsOf(text) == WordsFrom(text, <<>>, <<>>)

(***************************************************************************)
(* DocumentChunker._split_text                                             *)
(***************************************************************************)
RECURSIVE PackWordsNoLastFlush(_, _, _, _, _)
\* PackWords without the flush of the last sub-chunk (lines 398-399 left out)
PackWordsNoLastFlush(words, chunk_size, sub_chunk, sub_size, chunks) ==
    IF Len(words) = 0
    THEN chunks
    ELSE LET word == words[1]
             word_size == Len(word) + 1
         IN IF sub_size + word_size <= chunk_size
            THEN PackWordsNoLastFlush(Tail(words), chunk_size, Append(sub_chunk, word),
                                      sub_size + word_size, chunks)
            ELSE PackWordsNoLastFlush(Tail(words), chunk_size, <<word>>, word_size,
                                      Append(chunks, PyJoin(<<Space>>, sub_chunk)))

RECURSIVE PackWords(_, _, _, _, _)
\* the word loop of an oversized section and the flush of its last sub-chunk
PackWords(words, chunk_size, sub_chunk, sub_size, chunks) ==
    IF Len(words) = 0
    THEN IF Len(sub_chunk) > 0
         THEN Append(chunks, PyJoin(<<Space>>, sub_chunk))
         ELSE chunks
    ELSE LET word == words[1]
             word_size == Len(word) + 1
         IN IF sub_size + word_size <= chunk_size
            THEN PackWords(Tail(words), chunk_size, Append(sub_chunk, word),
                           sub_size + word_size, chunks)
            ELSE PackWords(Tail(words), chunk_size, <<word>>, word_size,
                           Append(chunks, PyJoin(<<Space>>, sub_chunk)))

\* a carry-over that keeps the whole overlap window, its first piece included
OverlapCarryWholeWindow(current_chunk, chunk_overlap, sep) ==
    IF chunk_overlap > 0 /\ Len(current_chunk) > 0
    THEN LET joined == PyJoin(sep, current_chunk)
             overlap_start == Max0(Len(joined) - chunk_overlap)
             overlap_text == SubSeq(joined, overlap_start + 1, Len(joined))
         IN PySplit(overlap_text, sep)
    ELSE <<>>

\* the buffer a flush leaves behind: the overlap window after its first separator
OverlapCarry(current_chunk, chunk_overlap, sep) ==
    IF chunk_overlap > 0 /\ Len(current_chunk) > 0
    THEN LET joined == PyJoin(sep, current_chunk)
             overlap_start == Max0(Len(joined) - chunk_overlap)
             overlap_text == SubSeq(joined, overlap_start + 1, Len(joined))
             overlap_sections == PySplit(overlap_text, sep)
         IN IF Len(overlap_sections) > 1 THEN Tail(overlap_sections) ELSE <<>>
    ELSE <<>>

\* current_size after the carry-over
CarrySize(carry, sep) ==
    IF Len(carry) > 0 THEN SumLen(carry) + Len(sep) * (Len(carry) - 1) ELSE 0

\* one iteration of the loop over the sections; st = [chunks, cur, size]
SplitStep(st, section, chunk_size, chunk_overlap, sep) ==
    LET section_size == Len(section) IN
    IF section_size > chunk_size
    THEN LET flushed == IF Len(st.cur) > 0
                        THEN Append(st.chunks, PyJoin(sep, st.cur))
                        ELSE st.chunks
             keptCur == IF Len(st.cur) > 0 THEN <<>> ELSE st.cur
             keptSize == IF Len(st.cur) > 0 THEN 0 ELSE st.size
         IN [chunks |-> PackWords(PySplit(section, <<Space>>), chunk_size,
                                  <<>>, 0, flushed),
             cur |-> keptCur, size |-> keptSize]
    ELSE IF st.size + section_size + Len(sep) > chunk_size
         THEN LET carry == OverlapCarry(st.cur, chunk_overlap, sep)
              IN [chunks |-> Append(st.chunks, PyJoin(sep, st.cur)),
                  cur |-> Append(carry, section),
                  size |-> CarrySize(carry, sep) + section_size]
         ELSE [chunks |-> st.chunks,
               cur |-> Append(st.cur, section),
               size |-> st.size + section_size + Len(sep)]

RECURSIVE SplitLoop(_, _, _, _, _)
SplitLoop(st, sections, chunk_size, chunk_overlap, sep) ==
    IF Len(sections) = 0 THEN st
    ELSE SplitLoop(SplitStep(st, sections[1], chunk_size, chunk_overlap, sep),
                   Tail(sections), chunk_size, chunk_overlap, sep)

\* DocumentChunker._split_text(text): the list of chunk strings
SplitText(text, chunk_size, chunk_overlap, sep) ==
    LET st == SplitLoop([chunks |-> <<>>, cur |-> <<>>, size |-> 0],
                        PySplit(text, sep), chunk_size, chunk_overlap, sep)
    IN IF Len(st.cur) > 0 THEN Append(st.chunks, PyJoin(sep, st.cur)) ELSE st.chunks


(***************************************************************************)
(* Documents and DocumentChunker.chunk_document                            *)
(***************************************************************************)
DocIds == {"d1", "d2"}
SourceFile(doc_id) == <<doc_id, ".md">>
EmptyMeta == [k \in {} |-> ""]
DocMetas == {EmptyMeta, [title |-> "T"]}

\* f"{doc_id}_chunk_{i}"
ChunkId(doc_id, i) == <<doc_id, "_chunk_", i>>

\* a chunk numbered from one in its id
DocumentChunkOneBased(doc, content, i) ==
    [content |-> content,
     metadata |-> doc.metadata,
     chunk_id |-> ChunkId(doc.doc_id, i + 1),
     source_file |-> doc.source_file,
     chunk_index |-> i]

\* DocumentChunk(content, metadata, chunk_id, source_file, chunk_index); i is 0-based
DocumentChunk(doc, content, i) ==
    [content |-> content,
     metadata |-> doc.metadata,
     chunk_id |-> ChunkId(doc.doc_id, i),
     source_file |-> doc.source_file,
     chunk_index |-> i]

\* a chunk_document that appends the new chunks to those the document holds
ChunkDocumentAccumulating(doc, chunk_size, chunk_overlap, sep) ==
    IF Len(doc.content) > 0
    THEN LET parts == SplitText(doc.content, chunk_size, chunk_overlap, sep)
         IN [doc EXCEPT !.chunks =
                @ \o [i \in 1..Len(parts) |-> DocumentChunk(doc, parts[i], i - 1)]]
    ELSE doc

\* the document chunk_document returns (and leaves behind: it assigns in place)
ChunkDocumentResult(doc, chunk_size, chunk_overlap, sep) ==
    IF Len(doc.content) > 0
    THEN LET parts == SplitText(doc.content, chunk_size, chunk_overlap, sep)
         IN [doc EXCEPT !.chunks =
                [i \in 1..Len(parts) |-> DocumentChunk(doc, parts[i], i - 1)]]
    ELSE doc

(***************************************************************************)
(* Embedding and the vector index (chromadb collection), as the indexer    *)
(* and the retriever use them.  Scores are fixed-point, in tenths.         *)
(***************************************************************************)
MaxResults == 3
MaxTokens == 3
MaxBatch == 2

\* the literal 1 of "1 - distance", in tenths
One == 10

\* similarity thresholds of a Retriever, in tenths
Thresholds == {6, 8}

Min2(a, b) == IF a < b THEN a ELSE b
Abs(x) == IF x < 0 THEN -x ELSE x

RECURSIVE CountChar(_, _)
CountChar(text, c) ==
    IF Len(text) = 0 THEN 0
    ELSE (IF text[1] = c THEN 1 ELSE 0) + CountChar(Tail(text), c)

\* model.encode(text): an opaque deterministic map from text to a vector
Encode(text) == <<CountChar(text, "a"), CountChar(text, "b")>>

\* the collection's distance between two vectors, in tenths
Distance(u, v) == 2 * (Abs(u[1] - v[1]) + Abs(u[2] - v[2]))

\* {**base, **over}
Merge(base, over) ==
    [k \in DOMAIN base \cup DOMAIN over |->
        IF k \in DOMAIN over THEN over[k] ELSE base[k]]

\* a record whose metadata lets the chunk's own keys win over the reserved ones
RecordOfChunkWins(chunk, doc_id) ==
    [id |-> chunk.chunk_id,
     document |-> chunk.content,
     embedding |-> Encode(chunk.content),
     metadata |-> Merge([chunk_index |-> chunk.chunk_index,
                         source_file |-> chunk.source_file,
                         doc_id |-> doc_id],
                        chunk.metadata)]

\* the record index_document builds for one chunk: id, document, embedding
\* (the generator's, or the collection's own embedding function's) and the
\* chunk metadata overridden by the three reserved keys
RecordOf(chunk, doc_id) ==
    [id |-> chunk.chunk_id,
     document |-> chunk.content,
     embedding |-> Encode(chunk.content),
     metadata |-> Merge(chunk.metadata,
                        [chunk_index |-> chunk.chunk_index,
                         source_file |-> chunk.source_file,
                         doc_id |-> doc_id])]

RECURSIVE BatchesWholeOnly(_, _)
\* a batch loop that leaves out a last batch shorter than batch_size
BatchesWholeOnly(recs, batch_size) ==
    IF Len(recs) < batch_size THEN <<>>
    ELSE <<SubSeq(recs, 1, batch_size)>>
         \o BatchesWholeOnly(SubSeq(recs, batch_size + 1, Len(recs)), batch_size)

RECURSIVE Batches(_, _)
\* [chunks[i:i+batch_size] for i in range(0, len(chunks), batch_size)]
Batches(recs, batch_size) ==
    IF Len(recs) = 0 THEN <<>>
    ELSE <<SubSeq(recs, 1, Min2(batch_size, Len(recs)))>>
         \o Batches(SubSeq(recs, batch_size + 1, Len(recs)), batch_size)

\* the chunks index_document indexes: the document's, or, when it has none,
\* those of DocumentChunker() with its defaults
ChunksToIndex(doc) ==
    IF Len(doc.chunks) > 0 THEN doc.chunks
    ELSE ChunkDocumentResult(doc, 512, 128, <<Newline>>).chunks

HasId(recs, id) == \E i \in 1..Len(recs) : recs[i].id = id

\* how the installed chromadb treats an add of an id that is already stored:
\* it keeps the stored record and skips the new one, or it rejects the batch
DupPolicies == {"ignore", "raise"}

\* collection.add(ids, documents, embeddings, metadatas): chromadb's add inserts
\* and never replaces a stored record (replacing is collection.upsert)
CollectionAdd(recs, batch, policy) ==
    IF policy = "raise" /\ \E i \in 1..Len(batch) : HasId(recs, batch[i].id)
    THEN [error |-> "DuplicateIDError", records |-> recs]
    ELSE [error |-> "none",
          records |-> recs \o SelectSeq(batch, LAMBDA r : ~HasId(recs, r.id))]

RECURSIVE AddBatches(_, _, _, _)
\* the batch loop of index_document: one collection.add per batch, until one
\* raises; adds are the batches add was called with
AddBatches(recs, batches, policy, adds) ==
    IF Len(batches) = 0 THEN [error |-> "none", records |-> recs, adds |-> adds]
    ELSE LET out == CollectionAdd(recs, batches[1], policy)
         IN IF out.error # "none"
            THEN [error |-> out.error, records |-> out.records,
                  adds |-> Append(adds, batches[1])]
            ELSE AddBatches(out.records, Tail(batches), policy, Append(adds, batches[1]))

\* a where clause: exact match on every key it names; None matches everything
NoFilter == [k \in {} |-> ""]
Matches(metadata, where) ==
    \A k \in DOMAIN where : k \in DOMAIN metadata /\ metadata[k] = where[k]

\* a delete that matches nothing: collection.delete(ids=[doc_id])
CollectionDeleteByChunkId(recs, where) ==
    SelectSeq(recs, LAMBDA r : ~(\E k \in DOMAIN where : r.id = where[k]))

\* collection.delete(where={"doc_id": doc_id})
CollectionDelete(recs, where) ==
    SelectSeq(recs, LAMBDA r : ~Matches(r.metadata, where))

RECURSIVE InsertRanked(_, _, _)
\* insert r after every record that is at most as far from qvec (stable)
InsertRanked(ranked, r, qvec) ==
    IF Len(ranked) = 0 THEN <<r>>
    ELSE IF Distance(qvec, r.embedding) < Distance(qvec, ranked[1].embedding)
         THEN <<r>> \o ranked
         ELSE <<ranked[1]>> \o InsertRanked(Tail(ranked), r, qvec)

RECURSIVE RankByDistance(_, _)
RankByDistance(recs, qvec) ==
    IF Len(recs) = 0 THEN <<>>
    ELSE InsertRanked(RankByDistance(SubSeq(recs, 1, Len(recs) - 1), qvec),
                      recs[Len(recs)], qvec)

\* collection.query(query_embeddings | query_texts, n_results, where, include):
\* the n_results nearest records that match where, nearest first, as the lists
\* ids, distances, metadatas, documents
CollectionQuery(recs, qvec, n_results, where) ==
    LET ranked == RankByDistance(SelectSeq(recs, LAMBDA r : Matches(r.metadata, where)),
                                 qvec)
        top == SubSeq(ranked, 1, Min2(n_results, Len(ranked)))
    IN [ids |-> [i \in 1..Len(top) |-> top[i].id],
        distances |-> [i \in 1..Len(top) |-> Distance(qvec, top[i].embedding)],
        metadatas |-> [i \in 1..Len(top) |-> top[i].metadata],
        documents |-> [i \in 1..Len(top) |-> top[i].document]]

\* get_collection_stats: count, distinct doc_id values, frequency tables
CountWhere(recs, key, value) ==
    Cardinality({i \in 1..Len(recs) :
                    key \in DOMAIN recs[i].metadata /\ recs[i].metadata[key] = value})

ValuesOf(recs, key) ==
    {recs[i].metadata[key] : i \in {n \in 1..Len(recs) : key \in DOMAIN recs[n].metadata}}

\* statistics that count one document per stored record
CollectionStatsPerRecord(recs) ==
    [total_chunks |-> Len(recs),
     total_documents |-> Len(recs),
     content_types |-> [v \in ValuesOf(recs, "content_type") |->
                            CountWhere(recs, "content_type", v)],
     categories |-> [v \in ValuesOf(recs, "category") |->
                            CountWhere(recs, "category", v)]]

CollectionStats(recs) ==
    [total_chunks |-> Len(recs),
     total_documents |-> Cardinality(ValuesOf(recs, "doc_id")),
     content_types |-> [v \in ValuesOf(recs, "content_type") |->
                            CountWhere(recs, "content_type", v)],
     categories |-> [v \in ValuesOf(recs, "category") |->
                            CountWhere(recs, "category", v)]]

(***************************************************************************)
(* Retriever.retrieve and Retriever.retrieve_and_build_context             *)
(***************************************************************************)
\* QueryTransformer.transform_query
TransformQuery(query) == query

\* the include list of the query
Includes(include_metadata, include_documents) ==
    (IF include_metadata THEN <<"metadatas">> ELSE <<>>)
    \o (IF include_documents THEN <<"documents">> ELSE <<>>)

\* a query that drops the caller's filter
QueryCallUnfiltered(query, has_generator, max_results, where, include_metadata, include_documents) ==
    [by |-> IF has_generator THEN "query_embeddings" ELSE "query_texts",
     query |-> IF has_generator THEN Encode(TransformQuery(query))
               ELSE TransformQuery(query),
     n_results |-> max_results,
     where |-> NoFilter,
     include |-> Includes(include_metadata, include_documents)]

\* the keyword arguments of the one collection.query call of retrieve
QueryCall(query, has_generator, max_results, where, include_metadata, include_documents) ==
    [by |-> IF has_generator THEN "query_embeddings" ELSE "query_texts",
     query |-> IF has_generator THEN Encode(TransformQuery(query))
               ELSE TransformQuery(query),
     n_results |-> max_results,
     where |-> where,
     include |-> Includes(include_metadata, include_documents)]

\* FormatResults with a strict comparison: score > threshold
FormatResultsStrict(resp, threshold, include_metadata, include_documents) ==
    LET n == Min2(Len(resp.ids), Len(resp.distances))
        zipped == [i \in 1..n |->
                     [chunk_id |-> resp.ids[i],
                      similarity_score |-> One - resp.distances[i],
                      metadata |-> IF include_metadata THEN resp.metadatas[i] ELSE EmptyMeta,
                      content |-> IF include_documents THEN resp.documents[i] ELSE <<>>]]
    IN SelectSeq(zipped, LAMBDA r : r.similarity_score > threshold)

\* FormatResults without the threshold test
FormatResultsNoFilter(resp, threshold, include_metadata, include_documents) ==
    LET n == Min2(Len(resp.ids), Len(resp.distances))
    IN [i \in 1..n |->
          [chunk_id |-> resp.ids[i],
           similarity_score |-> One - resp.distances[i],
           metadata |-> IF include_metadata THEN resp.metadatas[i] ELSE EmptyMeta,
           content |-> IF include_documents THEN resp.documents[i] ELSE <<>>]]

\* lines 121-140: the zip of ids, scores, metadatas and documents, filtered
FormatResults(resp, threshold, include_metadata, include_documents) ==
    LET ids == resp.ids
        distances == resp.distances
        metadatas == IF include_metadata THEN resp.metadatas
                     ELSE [i \in 1..Len(ids) |-> EmptyMeta]
        documents == IF include_documents THEN resp.documents
                     ELSE [i \in 1..Len(ids) |-> <<>>]
        similarity_scores == [i \in 1..Len(distances) |-> One - distances[i]]
        n == Min2(Min2(Len(ids), Len(similarity_scores)),
                  Min2(Len(metadatas), Len(documents)))
        zipped == [i \in 1..n |-> [chunk_id |-> ids[i],
                                   similarity_score |-> similarity_scores[i],
                                   metadata |-> metadatas[i],
                                   content |-> documents[i]]]
    IN SelectSeq(zipped, LAMBDA r : r.similarity_score >= threshold)

\* a rerank hook that reorders: the results back to front
RerankReversed(results, rerank) ==
    IF rerank /\ Len(results) > 0
    THEN [i \in 1..Len(results) |-> results[Len(results) + 1 - i]]
    ELSE results

\* lines 142-146: the rerank hook keeps the order
Rerank(results, rerank) ==
    IF rerank /\ Len(results) > 0 THEN results ELSE results

\* what retrieve returns for the response the index gave
RetrieveResults(resp, threshold, include_metadata, include_documents, rerank) ==
    Rerank(FormatResults(resp, threshold, include_metadata, include_documents), rerank)

\* token estimators: the default len(text.split()), and a caller's len(text)
Estimators == {"default", "chars"}
EstimateTokens(estimator, text) ==
    IF estimator = "default" THEN Len(WordsOf(text)) ELSE Len(text)

SourceKeys == {"title", "source", "source_file", "doc_id"}

\* SourceRecord with doc_id left out of the copied keys
SourceRecordNoDocId(chunk) ==
    [k \in {"chunk_id", "similarity_score"}
            \cup ((SourceKeys \ {"doc_id"}) \cap DOMAIN chunk.metadata) |->
        IF k = "chunk_id" THEN chunk.chunk_id
        ELSE IF k = "similarity_score" THEN chunk.similarity_score
        ELSE chunk.metadata[k]]

\* lines 209-217: the source record of one included chunk
SourceRecord(chunk) ==
    [k \in {"chunk_id", "similarity_score"} \cup (SourceKeys \cap DOMAIN chunk.metadata) |->
        IF k = "chunk_id" THEN chunk.chunk_id
        ELSE IF k = "similarity_score" THEN chunk.similarity_score
        ELSE chunk.metadata[k]]

RECURSIVE PackContextSkipping(_, _, _, _)
\* PackContext with continue in place of break: a chunk that does not fit is
\* skipped and later chunks that fit are still packed
PackContextSkipping(chunks, max_tokens, estimator, acc) ==
    IF Len(chunks) = 0 THEN acc
    ELSE LET chunk == chunks[1]
             chunk_tokens == EstimateTokens(estimator, chunk.content)
         IN IF acc.total_tokens + chunk_tokens > max_tokens
            THEN PackContextSkipping(Tail(chunks), max_tokens, estimator, acc)
            ELSE PackContextSkipping(Tail(chunks), max_tokens, estimator,
                    [parts |-> Append(acc.parts, chunk.content),
                     sources |-> IF DOMAIN chunk.metadata # {}
                                 THEN Append(acc.sources, SourceRecord(chunk))
                                 ELSE acc.sources,
                     total_tokens |-> acc.total_tokens + chunk_tokens,
                     chunks_used |-> acc.chunks_used + 1])

RECURSIVE PackContext(_, _, _, _)
\* lines 196-222: the packing loop; acc = [parts, sources, total_tokens, chunks_used]
PackContext(chunks, max_tokens, estimator, acc) ==
    IF Len(chunks) = 0 THEN acc
    ELSE LET chunk == chunks[1]
             chunk_tokens == EstimateTokens(estimator, chunk.content)
         IN IF acc.total_tokens + chunk_tokens > max_tokens
            THEN acc
            ELSE PackContext(Tail(chunks), max_tokens, estimator,
                    [parts |-> Append(acc.parts, chunk.content),
                     sources |-> IF DOMAIN chunk.metadata # {}
                                 THEN Append(acc.sources, SourceRecord(chunk))
                                 ELSE acc.sources,
                     total_tokens |-> acc.total_tokens + chunk_tokens,
                     chunks_used |-> acc.chunks_used + 1])

\* lines 177-233: the dictionary retrieve_and_build_context returns
BuildContext(retrieved_chunks, query, max_tokens, estimator) ==
    IF Len(retrieved_chunks) = 0
    THEN [context |-> <<>>, sources |-> <<>>, query |-> query, chunks_used |-> 0]
    ELSE LET acc == PackContext(retrieved_chunks, max_tokens, estimator,
                                [parts |-> <<>>, sources |-> <<>>,
                                 total_tokens |-> 0, chunks_used |-> 0])
         IN [context |-> PyJoin(<<Newline, Newline>>, acc.parts),
             sources |-> acc.sources,
             query |-> query,
             chunks_used |-> acc.chunks_used,
             total_tokens |-> acc.total_tokens]

(***************************************************************************)
(* EmbeddingGenerator.load_model and the availability checks               *)
(***************************************************************************)
\* self.model = None
NoModel == <<>>

\* a load_model that instantiates the model on every call
LoadModelAlways(gens, g, available) ==
    IF ~available THEN [error |-> "ImportError", generators |-> gens]
    ELSE [error |-> "none",
          generators |-> [gens EXCEPT ![g].model = <<g, gens[g].loads + 1>>,
                                      ![g].loads = @ + 1]]

\* a load_model that does not check SENTENCE_TRANSFORMERS_AVAILABLE
LoadModelUnchecked(gens, g, available) ==
    IF gens[g].model = NoModel
    THEN [error |-> "none",
          generators |-> [gens EXCEPT ![g].model = <<g, gens[g].loads + 1>>,
                                      ![g].loads = @ + 1]]
    ELSE [error |-> "none", generators |-> gens]

\* load_model (embeddings.py lines 52-69): raises when sentence-transformers is
\* not installed, instantiates SentenceTransformer when self.model is None;
\* the model object is named by its instance and its instantiation number
LoadModel(gens, g, available) ==
    IF ~available THEN [error |-> "ImportError", generators |-> gens]
    ELSE IF gens[g].model = NoModel
         THEN [error |-> "none",
               generators |-> [gens EXCEPT ![g].model = <<g, gens[g].loads + 1>>,
                                           ![g].loads = @ + 1]]
         ELSE [error |-> "none", generators |-> gens]

\* _initialize_client (indexer.py lines 58-70): raises when chromadb is not
\* installed
InitializeClientError(chromadb_available) ==
    IF chromadb_available THEN "none" ELSE "ImportError"

(***************************************************************************)
(* State.                                                                  *)
(***************************************************************************)
VARIABLES
    chunker,        \* DocumentChunker: chunk_size, chunk_overlap, separator
    document,       \* the Document handed to the chunker
    split_result,   \* what the last _split_text(document.content) call returned
    chunk_calls,    \* number of chunk_document(document) calls made so far
    heap,           \* the list objects that metadata values refer to
    client,         \* VectorStoreIndexer.client is set
    collection,     \* VectorStoreIndexer.collection is set
    db_exists,      \* the persisted collection exists
    records,        \* the records of the persisted collection, in insertion order
    dup_policy,     \* how the installed chromadb's add treats a stored id
    retriever,      \* Retriever: embedding_generator, max_results, similarity_threshold
    last,           \* the last operation and what it returned or raised
    backend,        \* SENTENCE_TRANSFORMERS_AVAILABLE and CHROMADB_AVAILABLE
    generators,     \* the EmbeddingGenerator instances: built, model, loads
    indexer_built,  \* the VectorStoreIndexer (Retriever.indexer) has been constructed
    memo,           \* history: the first retrieve call remembered, with its outcome,
                    \* and the chunk ids written, each with the id of its Document
    threads         \* the retrieve calls in progress, one per thread

chunkVars == <<chunker, document, split_result, chunk_calls, heap>>
restVars == <<backend, indexer_built, memo, threads>>
ragVars == <<client, collection, db_exists, records, dup_policy, retriever, last,
             generators, restVars>>
vars == <<chunkVars, ragVars>>

NotCalled == [called |-> FALSE, chunks |-> <<>>]
\* no list object allocated
EmptyHeap == [r \in {} |-> <<>>]
NoOp == [op |-> "none", error |-> "none"]

\* the chunker state while only the index and the retriever run
ChunkerAtRest ==
    /\ chunker = [chunk_size |-> 512, chunk_overlap |-> 128, separator |-> <<Newline>>]
    /\ document = [content |-> <<>>, metadata |-> EmptyMeta, source_file |-> <<>>,
                   doc_id |-> "", chunks |-> <<>>]
    /\ split_result = NotCalled
    /\ chunk_calls = 0
    /\ heap = EmptyHeap

Generators == {"g1", "g2"}
\* the generator the retriever holds and index_document is handed
TheGenerator == "g1"
\* an EmbeddingGenerator not yet constructed, and one just constructed
Unbuilt == [built |-> FALSE, model |-> NoModel, loads |-> 0]
Fresh == [built |-> TRUE, model |-> NoModel, loads |-> 0]
AllAvailable == [sentence_transformers |-> TRUE, chromadb |-> TRUE]
NoMemo == [remembered |-> FALSE, written |-> {}]
NoThreads == [t \in {} |-> NoOp]

\* both backends installed, the generators and the indexer constructed, no
\* retrieve call in progress
EnvironmentAtRest ==
    /\ backend = AllAvailable
    /\ generators = [g \in Generators |-> Fresh]
    /\ indexer_built = TRUE
    /\ memo = NoMemo
    /\ threads = NoThreads

\* VectorStoreIndexer.__init__: no client, no collection
IndexerAtRest ==
    /\ EnvironmentAtRest
    /\ client = FALSE
    /\ collection = FALSE
    /\ db_exists = FALSE
    /\ records = <<>>
    /\ dup_policy = "ignore"
    /\ retriever = [embedding_generator |-> FALSE, max_results |-> 5,
                    similarity_threshold |-> 7]
    /\ last = NoOp

(***************************************************************************)
(* The chunker on its own.                                                 *)
(***************************************************************************)
ChunkInit ==
    /\ chunker \in [chunk_size : 1..MaxChunkSize,
                    chunk_overlap : 0..MaxOverlap,
                    separator : Separators]
    /\ \E content \in Texts, doc_id \in DocIds :
          document = [content |-> content, metadata |-> [title |-> "T"],
                      source_file |-> SourceFile(doc_id), doc_id |-> doc_id,
                      chunks |-> <<>>]
    /\ split_result = NotCalled
    /\ chunk_calls = 0
    /\ heap = EmptyHeap
    /\ IndexerAtRest

\* a direct call of DocumentChunker._split_text on the document's content
SplitTextCall ==
    /\ split_result' = [called |-> TRUE,
                        chunks |-> SplitText(document.content, chunker.chunk_size,
                                             chunker.chunk_overlap, chunker.separator)]
    /\ UNCHANGED <<chunker, document, chunk_calls, heap, ragVars>>

\* DocumentChunker.chunk_document(document)
ChunkDocument ==
    /\ chunk_calls < MaxChunkCalls
    /\ chunk_calls' = chunk_calls + 1
    /\ document' = ChunkDocumentResult(document, chunker.chunk_size,
                                       chunker.chunk_overlap, chunker.separator)
    /\ UNCHANGED <<chunker, split_result, heap, ragVars>>

ChunkNext == SplitTextCall \/ ChunkDocument

SpecChunk == ChunkInit /\ [][ChunkNext]_vars

(***************************************************************************)
(* A document in the hands of its caller: chunk_document, and assignments  *)
(* to the fields of the Document and DocumentChunk dataclasses.  A metadata*)
(* value that is a list (the tags of a JSON or YAML document) is a          *)
(* reference into heap; dict.copy() copies the reference.                  *)
(***************************************************************************)
MaxTags == 2

DocTexts == {<<>>, <<"a">>, <<"a", Newline, "b">>}
ScalarKeys == {"title"}
ScalarValues == {"T", "U"}
TagsKey == "tags"
TagValues == {"y"}

\* d[k] = v
DictSet(d, k, v) == [j \in DOMAIN d \cup {k} |-> IF j = k THEN v ELSE d[j]]
\* del d[k]
DictDel(d, k) == [j \in DOMAIN d \ {k} |-> d[j]]

\* a metadata dict as a reader sees it: list values read through the heap
ResolvedMeta(metadata, h) ==
    [k \in DOMAIN metadata |-> IF k = TagsKey THEN h[metadata[k]] ELSE metadata[k]]

DocInit ==
    /\ chunker = [chunk_size |-> 2, chunk_overlap |-> 0, separator |-> <<Newline>>]
    /\ \E content \in DocTexts :
          document = [content |-> content,
                      metadata |-> [title |-> "T", tags |-> "r1"],
                      source_file |-> SourceFile("d1"), doc_id |-> "d1",
                      chunks |-> <<>>]
    /\ split_result = NotCalled
    /\ chunk_calls = 0
    /\ heap = [r \in {"r1"} |-> <<"x">>]
    /\ IndexerAtRest

\* document.content = content
SetContent(content) ==
    /\ document' = [document EXCEPT !.content = content]
    /\ UNCHANGED <<chunker, split_result, chunk_calls, heap, ragVars>>

\* document.metadata[k] = v
SetDocumentMetadata(k, v) ==
    /\ document' = [document EXCEPT !.metadata = DictSet(@, k, v)]
    /\ UNCHANGED <<chunker, split_result, chunk_calls, heap, ragVars>>

\* del document.metadata[k]
DelDocumentMetadata(k) ==
    /\ k \in DOMAIN document.metadata
    /\ document' = [document EXCEPT !.metadata = DictDel(@, k)]
    /\ UNCHANGED <<chunker, split_result, chunk_calls, heap, ragVars>>

\* document.metadata["tags"].append(x)
AppendDocumentTag(x) ==
    /\ TagsKey \in DOMAIN document.metadata
    /\ Len(heap[document.metadata[TagsKey]]) < MaxTags
    /\ heap' = [heap EXCEPT ![document.metadata[TagsKey]] = Append(@, x)]
    /\ UNCHANGED <<chunker, document, split_result, chunk_calls, ragVars>>

\* document.chunks[i].metadata[k] = v
SetChunkMetadata(i, k, v) ==
    /\ i \in 1..Len(document.chunks)
    /\ document' = [document EXCEPT !.chunks[i].metadata = DictSet(@, k, v)]
    /\ UNCHANGED <<chunker, split_result, chunk_calls, heap, ragVars>>

\* del document.chunks[i].metadata[k]
DelChunkMetadata(i, k) ==
    /\ i \in 1..Len(document.chunks)
    /\ k \in DOMAIN document.chunks[i].metadata
    /\ document' = [document EXCEPT !.chunks[i].metadata = DictDel(@, k)]
    /\ UNCHANGED <<chunker, split_result, chunk_calls, heap, ragVars>>

\* document.chunks[i].metadata["tags"].append(x)
AppendChunkTag(i, x) ==
    /\ i \in 1..Len(document.chunks)
    /\ TagsKey \in DOMAIN document.chunks[i].metadata
    /\ Len(heap[document.chunks[i].metadata[TagsKey]]) < MaxTags
    /\ heap' = [heap EXCEPT ![document.chunks[i].metadata[TagsKey]] = Append(@, x)]
    /\ UNCHANGED <<chunker, document, split_result, chunk_calls, ragVars>>

ChunkPositions == 1..2

DocumentEdit ==
    \/ \E k \in ScalarKeys, v \in ScalarValues : SetDocumentMetadata(k, v)
    \/ \E k \in ScalarKeys \cup {TagsKey} : DelDocumentMetadata(k)
    \/ \E x \in TagValues : AppendDocumentTag(x)

ChunkEdit(i) ==
    \/ \E k \in ScalarKeys, v \in ScalarValues : SetChunkMetadata(i, k, v)
    \/ \E k \in ScalarKeys \cup {TagsKey} : DelChunkMetadata(i, k)
    \/ \E x \in TagValues : AppendChunkTag(i, x)

DocNext ==
    \/ ChunkDocument
    \/ \E content \in DocTexts : SetContent(content)
    \/ DocumentEdit
    \/ \E i \in ChunkPositions : ChunkEdit(i)

SpecDoc == DocInit /\ [][DocNext]_vars

(***************************************************************************)
(* The indexer and the retriever that holds it.                            *)
(***************************************************************************)
\* the documents handed to index_document: d1 chunked in advance with a small
\* chunker, d2 left to index_document's default chunker; three contents each
RagTexts == {<<>>, <<"a">>, <<"b", Space, "b", Newline, "a">>}
RagMeta(doc_id) ==
    IF doc_id = "d1"
    THEN [title |-> "T", category |-> "faq", doc_id |-> "d9", chunk_index |-> 7]
    ELSE EmptyMeta
RagDoc(doc_id, content, prechunked) ==
    LET doc == [content |-> content, metadata |-> RagMeta(doc_id),
                source_file |-> SourceFile(doc_id), doc_id |-> doc_id,
                chunks |-> <<>>]
    IN IF prechunked THEN ChunkDocumentResult(doc, 4, 0, <<Newline>>) ELSE doc
RagDocs == {RagDoc(d, c, d = "d1") : d \in DocIds, c \in RagTexts}

Queries == {<<"a">>, <<"b">>}
Filters == {NoFilter, [doc_id |-> "d1"]}
DeleteIds == DocIds \cup {"d3"}
\* <<include_metadata, include_documents, rerank>> of the retrieve calls made
RetrieveFlags == {<<TRUE, TRUE, FALSE>>, <<TRUE, TRUE, TRUE>>,
                  <<FALSE, TRUE, FALSE>>, <<TRUE, FALSE, TRUE>>}

Init ==
    /\ ChunkerAtRest
    /\ EnvironmentAtRest
    /\ client = FALSE
    /\ collection = FALSE
    /\ db_exists = FALSE
    /\ records = <<>>
    /\ dup_policy \in DupPolicies
    /\ retriever \in [embedding_generator : BOOLEAN,
                      max_results : {1, MaxResults},
                      similarity_threshold : Thresholds]
    /\ last = NoOp

\* _get_collection when self.collection is None (lines 88-108): the client is
\* initialized, the collection is fetched, or created when it does not exist
EnsureCollection ==
    /\ client' = (client \/ ~collection)
    /\ collection' = TRUE
    /\ db_exists' = TRUE

\* the indexer is constructed and the call gets past _initialize_client
IndexerReady == indexer_built /\ InitializeClientError(backend.chromadb) = "none"

\* _get_embedding_function (lines 72-86) builds chromadb's sentence-transformer
\* embedding function; without sentence-transformers the installed chromadb
\* either builds it all the same or raises
EmbeddingFunctionErrors ==
    IF backend.sentence_transformers THEN {"none"} ELSE {"none", "ValueError"}

\* an indexer operation whose _get_collection raises while building the
\* embedding function: the client is set, the collection is not
EmbeddingFunctionFails(op) ==
    /\ IndexerReady
    /\ ~collection
    /\ "ValueError" \in EmbeddingFunctionErrors
    /\ client' = TRUE
    /\ last' = [op |-> op, error |-> "ValueError"]
    /\ UNCHANGED <<collection, db_exists, records, generators>>

\* an indexer operation that raises in _initialize_client: nothing is set
IndexerUnavailable(op) ==
    /\ indexer_built
    /\ InitializeClientError(backend.chromadb) # "none"
    /\ last' = [op |-> op, error |-> InitializeClientError(backend.chromadb)]
    /\ UNCHANGED <<client, collection, db_exists, records, generators>>

\* index_document(document, embedding_generator, batch_size) (lines 110-191):
\* the lazy collection, the chunking on demand, the embedding (which loads the
\* generator's model when there is a chunk to embed), and one add per batch;
\* an add that raises ends the call
IndexDocumentCall(doc, use_generator, batch_size) ==
    /\ use_generator => generators[TheGenerator].built
    /\ \/ IndexerUnavailable("index_document")
       \/ EmbeddingFunctionFails("index_document")
       \/ /\ IndexerReady
          /\ EnsureCollection
          /\ LET chunks == ChunksToIndex(doc)
                 recs == [i \in 1..Len(chunks) |-> RecordOf(chunks[i], doc.doc_id)]
                 load == IF use_generator /\ Len(chunks) > 0
                         THEN LoadModel(generators, TheGenerator,
                                        backend.sentence_transformers)
                         ELSE [error |-> "none", generators |-> generators]
                 run == IF load.error = "none"
                        THEN AddBatches(records, Batches(recs, batch_size),
                                        dup_policy, <<>>)
                        ELSE [error |-> load.error, records |-> records, adds |-> <<>>]
             IN /\ generators' = load.generators
                /\ records' = run.records
                /\ last' = [op |-> "index_document", error |-> run.error,
                            doc_id |-> doc.doc_id, with_embeddings |-> use_generator,
                            batch_size |-> batch_size,
                            chunks |-> chunks, adds |-> run.adds]
    /\ UNCHANGED <<dup_policy, retriever, chunkVars, backend, indexer_built, threads>>

IndexDocument(doc, use_generator, batch_size) ==
    /\ IndexDocumentCall(doc, use_generator, batch_size)
    /\ UNCHANGED memo

\* delete_document(doc_id) (lines 214-228)
DeleteDocument(doc_id) ==
    /\ \/ IndexerUnavailable("delete_document")
       \/ EmbeddingFunctionFails("delete_document")
       \/ /\ IndexerReady
          /\ EnsureCollection
          /\ records' = CollectionDelete(records, [doc_id |-> doc_id])
          /\ last' = [op |-> "delete_document", error |-> "none", doc_id |-> doc_id,
                      before |-> records]
          /\ UNCHANGED generators
    /\ UNCHANGED <<dup_policy, retriever, chunkVars, restVars>>

\* delete_collection() (lines 240-246): client.delete_collection raises when the
\* collection does not exist, and self.collection is then left as it was
DeleteCollection ==
    /\ \/ IndexerUnavailable("delete_collection")
       \/ /\ IndexerReady
          /\ client' = TRUE
          /\ IF db_exists
             THEN /\ db_exists' = FALSE
                  /\ records' = <<>>
                  /\ collection' = FALSE
                  /\ last' = [op |-> "delete_collection", error |-> "none"]
             ELSE /\ UNCHANGED <<db_exists, records, collection>>
                  /\ last' = [op |-> "delete_collection", error |-> "ValueError"]
          /\ UNCHANGED generators
    /\ UNCHANGED <<dup_policy, retriever, chunkVars, restVars>>

\* get_collection_stats() (lines 248-289)
GetCollectionStats ==
    /\ \/ IndexerUnavailable("get_collection_stats")
       \/ EmbeddingFunctionFails("get_collection_stats")
       \/ /\ IndexerReady
          /\ EnsureCollection
          /\ last' = [op |-> "get_collection_stats", error |-> "none",
                      stats |-> CollectionStats(records)]
          /\ UNCHANGED <<records, generators>>
    /\ UNCHANGED <<dup_policy, retriever, chunkVars, restVars>>

\* what a retrieve call on the injected indexer comes to: the generator's
\* embedding of the transformed query (which loads its model), the query it
\* issues, the response it gets and the list it returns;
\* self.indexer.collection is read as it is, and is None until an indexer
\* operation has set it
RetrieveOutcomeOn(has_collection, query, where, include_metadata, include_documents, rerank) ==
    LET call == QueryCall(query, retriever.embedding_generator, retriever.max_results,
                          where, include_metadata, include_documents)
        load == IF retriever.embedding_generator
                THEN LoadModel(generators, TheGenerator, backend.sentence_transformers)
                ELSE [error |-> "none", generators |-> generators]
        embedded == IF retriever.embedding_generator
                    THEN <<TransformQuery(query)>> ELSE <<>>
    IN IF load.error # "none"
       THEN [error |-> load.error, generators |-> load.generators,
             embedded |-> embedded, queries |-> <<>>]
       ELSE IF ~has_collection
       THEN [error |-> "AttributeError", generators |-> load.generators,
             embedded |-> embedded, queries |-> <<call>>, call |-> call]
       ELSE LET resp == CollectionQuery(records, Encode(TransformQuery(query)),
                                        call.n_results, call.where)
            IN [error |-> "none", generators |-> load.generators,
                embedded |-> embedded, queries |-> <<call>>,
                call |-> call, response |-> resp,
                results |-> RetrieveResults(resp, retriever.similarity_threshold,
                                            include_metadata, include_documents, rerank)]

RetrieveOutcome(query, where, include_metadata, include_documents, rerank) ==
    RetrieveOutcomeOn(collection, query, where, include_metadata, include_documents,
                      rerank)

\* the part of an outcome that the caller of retrieve sees or that was sent
\* to the index
Observed(outcome) == [k \in DOMAIN outcome \ {"generators"} |-> outcome[k]]

\* Retriever.retrieve (lines 60-148)
RetrieveCall(query, where, include_metadata, include_documents, rerank) ==
    LET got == RetrieveOutcome(query, where, include_metadata, include_documents, rerank)
    IN /\ generators' = got.generators
       /\ last' = Merge(Observed(got),
                        [op |-> "retrieve", query |-> query,
                         filter_criteria |-> where,
                         include_metadata |-> include_metadata,
                         include_documents |-> include_documents,
                         rerank |-> rerank])
       /\ UNCHANGED <<client, collection, db_exists, records, dup_policy,
                      retriever, chunkVars, backend, indexer_built, threads>>

Retrieve(query, where, include_metadata, include_documents, rerank) ==
    /\ RetrieveCall(query, where, include_metadata, include_documents, rerank)
    /\ UNCHANGED memo

\* Retriever.retrieve_and_build_context (lines 150-233)
RetrieveAndBuildContext(query, where, max_tokens, estimator) ==
    /\ LET got == RetrieveOutcome(query, where, TRUE, TRUE, FALSE)
       IN /\ generators' = got.generators
          /\ last' = IF got.error # "none"
                     THEN Merge(Observed(got),
                                [op |-> "retrieve_and_build_context", query |-> query])
                     ELSE Merge(Observed(got),
                                [op |-> "retrieve_and_build_context", query |-> query,
                                 max_tokens |-> max_tokens, estimator |-> estimator,
                                 returned |-> BuildContext(got.results, query,
                                                           max_tokens, estimator)])
    /\ UNCHANGED <<client, collection, db_exists, records, dup_policy,
                   retriever, chunkVars, restVars>>

Next ==
    \/ \E doc \in RagDocs, g \in BOOLEAN, b \in 1..MaxBatch : IndexDocument(doc, g, b)
    \/ \E d \in DeleteIds : DeleteDocument(d)
    \/ DeleteCollection
    \/ GetCollectionStats
    \/ \E q \in Queries, f \in Filters, fl \in RetrieveFlags :
          Retrieve(q, f, fl[1], fl[2], fl[3])
    \/ \E q \in Queries, t \in 0..MaxTokens, e \in Estimators :
          RetrieveAndBuildContext(q, NoFilter, t, e)

Spec == Init /\ [][Next]_vars

(***************************************************************************)
(* Retrieval repeated: the first retrieve call is remembered, with the     *)
(* records of the index at that time and what the call returned or raised. *)
(***************************************************************************)
\* what the caller of retrieve gets: the list returned, or the error raised
Seen(outcome) ==
    IF outcome.error = "none"
    THEN [error |-> "none", results |-> outcome.results]
    ELSE [error |-> outcome.error]

RecallInit ==
    /\ ChunkerAtRest
    /\ EnvironmentAtRest
    /\ client = FALSE
    /\ collection = FALSE
    /\ db_exists = FALSE
    /\ records = <<>>
    /\ dup_policy = "ignore"
    /\ retriever \in [embedding_generator : BOOLEAN,
                      max_results : {MaxResults},
                      similarity_threshold : Thresholds]
    /\ last = NoOp

\* Retriever.retrieve (lines 60-148), remembered when it is the first
RememberedRetrieve(query, where, include_metadata, include_documents, rerank) ==
    /\ RetrieveCall(query, where, include_metadata, include_documents, rerank)
    /\ memo' = IF memo.remembered THEN memo
               ELSE [remembered |-> TRUE, written |-> memo.written,
                     args |-> <<query, where, include_metadata, include_documents,
                                rerank>>,
                     records |-> records,
                     seen |-> Seen(RetrieveOutcome(query, where, include_metadata,
                                                   include_documents, rerank))]

\* the documents indexed between two retrieve calls
RecallDocs == {doc \in RagDocs : doc.doc_id = "d2"}

RecallNext ==
    \/ \E doc \in RecallDocs : IndexDocument(doc, FALSE, MaxBatch)
    \/ DeleteDocument("d2")
    \/ DeleteCollection
    \/ GetCollectionStats
    \/ \E q \in Queries, f \in Filters, rr \in BOOLEAN :
          RememberedRetrieve(q, f, TRUE, TRUE, rr)
    \/ \E q \in Queries, e \in Estimators :
          RetrieveAndBuildContext(q, NoFilter, MaxTokens, e)

SpecRecall == RecallInit /\ [][RecallNext]_vars

(***************************************************************************)
(* Two retrieve calls at once on one Retriever, step by step: the lazy     *)
(* default indexer of lines 81-83, then the query and its formatting.      *)
(***************************************************************************)
Threads == {"t1", "t2"}
Idle == [pc |-> "idle"]

\* the records a persisted collection holds when the Retriever is built
PersistedRecords ==
    {<<>>} \cup {[i \in 1..Len(ChunksToIndex(doc)) |->
                    RecordOf(ChunksToIndex(doc)[i], doc.doc_id)] : doc \in RagDocs}

\* indexer_built is "self.indexer is not None"; a Retriever built without an
\* indexer, or with one whose collection is set
ConcurrentInit ==
    /\ ChunkerAtRest
    /\ backend = AllAvailable
    /\ generators = [g \in Generators |-> Fresh]
    /\ memo = NoMemo
    /\ threads = [t \in Threads |-> Idle]
    /\ indexer_built \in BOOLEAN
    /\ client = indexer_built
    /\ collection = indexer_built
    /\ records \in PersistedRecords
    /\ db_exists = (indexer_built \/ Len(records) > 0)
    /\ dup_policy = "ignore"
    /\ retriever \in [embedding_generator : {FALSE},
                      max_results : {MaxResults},
                      similarity_threshold : Thresholds]
    /\ last = NoOp

\* a thread calls retrieve(query)
StartRetrieve(t, query) ==
    /\ threads[t].pc \in {"idle", "done"}
    /\ threads' = [threads EXCEPT ![t] = [pc |-> "check", query |-> query]]
    /\ UNCHANGED <<client, collection, db_exists, records, dup_policy, retriever,
                   last, generators, chunkVars, backend, indexer_built, memo>>

\* line 81: if self.indexer is None
CheckIndexer(t) ==
    /\ threads[t].pc = "check"
    /\ threads' = [threads EXCEPT ![t].pc = IF indexer_built THEN "query"
                                            ELSE "construct"]
    /\ UNCHANGED <<client, collection, db_exists, records, dup_policy, retriever,
                   last, generators, chunkVars, backend, indexer_built, memo>>

\* line 82: self.indexer = VectorStoreIndexer(): a new indexer object, with no
\* client and no collection, takes the place of the one held
AssignIndexer(t) ==
    /\ threads[t].pc = "construct"
    /\ indexer_built' = TRUE
    /\ client' = FALSE
    /\ collection' = FALSE
    /\ threads' = [threads EXCEPT ![t].pc = "get_collection"]
    /\ UNCHANGED <<db_exists, records, dup_policy, retriever, last, generators,
                   chunkVars, backend, memo>>

\* line 83: self.indexer._get_collection()
GetCollection(t) ==
    /\ threads[t].pc = "get_collection"
    /\ EnsureCollection
    /\ threads' = [threads EXCEPT ![t].pc = "query"]
    /\ UNCHANGED <<records, dup_policy, retriever, last, generators, chunkVars,
                   backend, indexer_built, memo>>

\* lines 85-148: the query on self.indexer.collection as it is now, and the
\* formatting of its response
QueryAndFormat(t) ==
    /\ threads[t].pc = "query"
    /\ threads' = [threads EXCEPT ![t] =
          [pc |-> "done", query |-> threads[t].query,
           seen |-> Seen(RetrieveOutcome(threads[t].query, NoFilter,
                                         TRUE, TRUE, FALSE))]]
    /\ UNCHANGED <<client, collection, db_exists, records, dup_policy, retriever,
                   last, generators, chunkVars, backend, indexer_built, memo>>

ConcurrentNext ==
    \/ \E t \in Threads, q \in Queries : StartRetrieve(t, q)
    \/ \E t \in Threads : CheckIndexer(t)
    \/ \E t \in Threads : AssignIndexer(t)
    \/ \E t \in Threads : GetCollection(t)
    \/ \E t \in Threads : QueryAndFormat(t)

SpecConcurrent == ConcurrentInit /\ [][ConcurrentNext]_vars

(***************************************************************************)
(* Construction and first use, with either backend installed or not: the   *)
(* EmbeddingGenerator instances and the VectorStoreIndexer.                *)
(***************************************************************************)
EmbedTexts == {<<"a">>, <<"b">>}
EmbedLists == {<<>>, <<<<"a">>>>, <<<<"a">>, <<"b">>>>}
EmbedOps == {"generate_embedding", "generate_embeddings",
             "embed_document_chunks", "embed_document"}

BackendInit ==
    /\ ChunkerAtRest
    /\ backend \in [sentence_transformers : BOOLEAN, chromadb : BOOLEAN]
    /\ generators = [g \in Generators |-> Unbuilt]
    /\ indexer_built = FALSE
    /\ memo = NoMemo
    /\ threads = NoThreads
    /\ client = FALSE
    /\ collection = FALSE
    /\ db_exists = FALSE
    /\ records = <<>>
    /\ dup_policy = "ignore"
    /\ retriever = [embedding_generator |-> FALSE, max_results |-> 5,
                    similarity_threshold |-> 7]
    /\ last = NoOp

\* EmbeddingGenerator.__init__ (embeddings.py lines 23-50): self.model = None,
\* and a warning when sentence-transformers is not installed
ConstructGenerator(g) ==
    /\ ~generators[g].built
    /\ generators' = [generators EXCEPT ![g] = Fresh]
    /\ last' = [op |-> "EmbeddingGenerator", error |-> "none", generator |-> g]
    /\ UNCHANGED <<client, collection, db_exists, records, dup_policy, retriever,
                   chunkVars, restVars>>

\* VectorStoreIndexer.__init__ (indexer.py lines 25-56): no client, no
\* collection, and a warning when chromadb is not installed
ConstructIndexer ==
    /\ ~indexer_built
    /\ indexer_built' = TRUE
    /\ last' = [op |-> "VectorStoreIndexer", error |-> "none"]
    /\ UNCHANGED <<client, collection, db_exists, records, dup_policy, retriever,
                   generators, chunkVars, backend, memo, threads>>

\* an embed call of generator g: load_model when the call gets to it, then
\* the result; needs_model tells whether the call got to load_model
EmbedCall(g, op, needs_model, result) ==
    /\ generators[g].built
    /\ LET load == IF needs_model
                   THEN LoadModel(generators, g, backend.sentence_transformers)
                   ELSE [error |-> "none", generators |-> generators]
       IN /\ generators' = load.generators
          /\ last' = [op |-> op, generator |-> g, error |-> load.error,
                      needs_model |-> needs_model,
                      loaded_before |-> generators[g].model # NoModel,
                      result |-> IF load.error = "none" THEN result ELSE <<>>]
    /\ UNCHANGED <<client, collection, db_exists, records, dup_policy, retriever,
                   chunkVars, restVars>>

\* generate_embedding(text) (lines 71-89)
GenerateEmbedding(g, text) ==
    EmbedCall(g, "generate_embedding", TRUE, Encode(text))

\* generate_embeddings(texts) (lines 91-111)
GenerateEmbeddings(g, texts) ==
    EmbedCall(g, "generate_embeddings", TRUE,
              [i \in 1..Len(texts) |-> Encode(texts[i])])

\* the list embed_document_chunks builds
EmbeddedChunks(chunks) ==
    [i \in 1..Len(chunks) |->
        [content |-> chunks[i].content,
         embedding |-> Encode(chunks[i].content),
         metadata |-> chunks[i].metadata,
         chunk_id |-> chunks[i].chunk_id,
         source_file |-> chunks[i].source_file,
         chunk_index |-> chunks[i].chunk_index]]

\* embed_document_chunks(chunks) (lines 113-144): an empty list returns at once
EmbedDocumentChunks(g, chunks) ==
    EmbedCall(g, "embed_document_chunks", Len(chunks) > 0, EmbeddedChunks(chunks))

\* embed_document(document) (lines 146-170): chunks the document when it has
\* no chunks, then embeds its chunks
EmbedDocument(g, doc) ==
    LET chunks == ChunksToIndex(doc)
    IN EmbedCall(g, "embed_document", Len(chunks) > 0,
                 [doc_id |-> doc.doc_id, metadata |-> doc.metadata,
                  source_file |-> doc.source_file, chunks |-> EmbeddedChunks(chunks)])

BackendNext ==
    \/ \E g \in Generators : ConstructGenerator(g)
    \/ ConstructIndexer
    \/ \E g \in Generators, text \in EmbedTexts : GenerateEmbedding(g, text)
    \/ \E g \in Generators, texts \in EmbedLists : GenerateEmbeddings(g, texts)
    \/ \E g \in Generators, doc \in RagDocs : EmbedDocumentChunks(g, doc.chunks)
    \/ \E g \in Generators, doc \in RagDocs : EmbedDocument(g, doc)
    \/ \E doc \in RagDocs, use_generator \in BOOLEAN :
          IndexDocument(doc, use_generator, MaxBatch)
    \/ \E d \in DocIds : DeleteDocument(d)
    \/ DeleteCollection
    \/ GetCollectionStats

SpecBackend == BackendInit /\ [][BackendNext]_vars

(***************************************************************************)
(* Claims about the chunker, checked under SpecChunk.                      *)
(***************************************************************************)
\* the chunk is one single word longer than chunk_size, under either reading of
\* "word": the code's (a piece of section.split(' '), so a chunk without a
\* space) or the usual one (the chunk holds one run of non-whitespace)
IsOversizedSingleWord(chunk, chunk_size) ==
    \/ /\ Len(chunk) > chunk_size
       /\ \A k \in 1..Len(chunk) : chunk[k] # Space
    \/ /\ Len(WordsOf(chunk)) = 1
       /\ Len(WordsOf(chunk)[1]) > chunk_size

\* C1: every chunk _split_text returns is at most chunk_size characters long,
\* except a chunk that is one single word itself longer than chunk_size.
C1_ChunkSizeBound ==
    split_result.called =>
        \A i \in 1..Len(split_result.chunks) :
            \/ Len(split_result.chunks[i]) <= chunker.chunk_size
            \/ IsOversizedSingleWord(split_result.chunks[i], chunker.chunk_size)

RECURSIVE Concat(_)
\* "".join(parts)
Concat(parts) == IF Len(parts) = 0 THEN <<>> ELSE parts[1] \o Concat(Tail(parts))

ChunkContents(doc) == [i \in 1..Len(doc.chunks) |-> doc.chunks[i].content]

\* C2 as claimed: with chunk_overlap = 0 the chunk contents of a chunked
\* document, concatenated in chunk_index order, are the document's content.
C2_NoLossExact ==
    (chunk_calls > 0 /\ chunker.chunk_overlap = 0) =>
        Concat(ChunkContents(document)) = document.content

\* a text without its space characters and without the characters of sep
StripBreaks(text, sep) ==
    LET IsBreak(c) == c = Space \/ \E k \in 1..Len(sep) : sep[k] = c
    IN SelectSeq(text, LAMBDA c : ~IsBreak(c))

\* C2 as amended: with chunk_overlap = 0 the concatenated chunk contents are
\* the document's content up to separator and space characters: the two are
\* equal once every separator and space character is removed from both.
C2_NoLossUpToBreaks ==
    (chunk_calls > 0 /\ chunker.chunk_overlap = 0) =>
        StripBreaks(Concat(ChunkContents(document)), chunker.separator)
            = StripBreaks(document.content, chunker.separator)

\* a document of two sections too long to share a chunk has been chunked with
\* chunk_overlap = 0 into several chunks
C2_Witness ==
    /\ chunk_calls > 0
    /\ chunker.chunk_overlap = 0
    /\ Len(document.chunks) >= 2
    /\ StripBreaks(document.content, chunker.separator) # <<>>
    /\ Concat(ChunkContents(document)) # document.content


(***************************************************************************)
(* Claims about the retriever and the indexer, checked under Spec.         *)
(***************************************************************************)
RetrieveDone == last.op = "retrieve" /\ last.error = "none"
BuildDone == last.op = "retrieve_and_build_context" /\ last.error = "none"

Similarity(resp, i) == One - resp.distances[i]
Candidates(resp) == 1..Len(resp.ids)
Passing(resp) == {i \in Candidates(resp) : Similarity(resp, i) >= retriever.similarity_threshold}

\* the position of a chunk id in the response (ids are unique in a collection)
PositionOf(resp, id) == CHOOSE i \in Candidates(resp) : resp.ids[i] = id

\* C3: retrieve returns exactly the candidates whose similarity 1 - distance is
\* at least the threshold (equality included), each with that similarity as
\* its similarity_score.
C3_ThresholdFilter ==
    RetrieveDone =>
        LET resp == last.response
            res == last.results
        IN /\ {res[j].chunk_id : j \in 1..Len(res)} = {resp.ids[i] : i \in Passing(resp)}
           /\ Len(res) = Cardinality(Passing(resp))
           /\ \A j \in 1..Len(res) :
                 res[j].similarity_score = Similarity(resp, PositionOf(resp, res[j].chunk_id))

\* a retrieve whose response holds a candidate exactly at the threshold (kept)
\* and one below it (dropped)
C3_Witness ==
    /\ RetrieveDone
    /\ \E i \in Candidates(last.response) :
          /\ Similarity(last.response, i) = retriever.similarity_threshold
          /\ \E j \in 1..Len(last.results) : last.results[j].chunk_id = last.response.ids[i]
    /\ \E i \in Candidates(last.response) :
          /\ Similarity(last.response, i) < retriever.similarity_threshold
          /\ \A j \in 1..Len(last.results) : last.results[j].chunk_id # last.response.ids[i]

RECURSIVE SumTokens(_, _, _)
\* the estimated tokens of the first k retrieved chunks
SumTokens(chunks, k, estimator) ==
    IF k = 0 THEN 0
    ELSE SumTokens(chunks, k - 1, estimator) + EstimateTokens(estimator, chunks[k].content)

C5_OrderPreserved ==
    RetrieveDone =>
        LET resp == last.response
            res == last.results
        IN /\ \A j, k \in 1..Len(res) :
                 j < k => PositionOf(resp, res[j].chunk_id) < PositionOf(resp, res[k].chunk_id)
           /\ res = RetrieveResults(resp, retriever.similarity_threshold,
                                    last.include_metadata, last.include_documents,
                                    ~last.rerank)

\* a retrieve with rerank = true that returned two results of different
\* similarity and dropped a candidate
C5_Witness ==
    /\ RetrieveDone
    /\ last.rerank
    /\ Len(last.results) >= 2
    /\ last.results[1].similarity_score > last.results[2].similarity_score
    /\ Len(last.results) < Len(last.response.ids)

\* C6: one source record per chunk packed into the context, in order, with the
\* chunk's chunk_id and similarity_score and exactly the keys among title,
\* source, source_file, doc_id that its metadata holds.
C6_SourcesPerChunk ==
    BuildDone =>
        LET R == last.results
            out == last.returned
        IN /\ Len(out.sources) = out.chunks_used
           /\ \A i \in 1..Len(out.sources) :
                 /\ out.sources[i].chunk_id = R[i].chunk_id
                 /\ out.sources[i].similarity_score = R[i].similarity_score
                 /\ DOMAIN out.sources[i] \ {"chunk_id", "similarity_score"}
                      = SourceKeys \cap DOMAIN R[i].metadata
                 /\ \A key \in SourceKeys \cap DOMAIN R[i].metadata :
                       out.sources[i][key] = R[i].metadata[key]

\* two chunks were packed, one whose metadata has a title and one without
C6_Witness ==
    /\ BuildDone
    /\ last.returned.chunks_used >= 2
    /\ \E i \in 1..last.returned.chunks_used : "title" \in DOMAIN last.results[i].metadata
    /\ \E i \in 1..last.returned.chunks_used : "title" \notin DOMAIN last.results[i].metadata

NothingPasses(resp) == Passing(resp) = {}

\* C7: when the index returns no candidate, or only candidates below the
\* threshold, retrieve returns the empty list and retrieve_and_build_context
\* returns context "", sources [] and chunks_used 0.
C7_EmptyRetrieval ==
    /\ (RetrieveDone /\ NothingPasses(last.response)) => last.results = <<>>
    /\ (BuildDone /\ NothingPasses(last.response)) =>
          /\ last.results = <<>>
          /\ last.returned.context = <<>>
          /\ last.returned.sources = <<>>
          /\ last.returned.chunks_used = 0

\* a context was built from a response whose candidates are all below the
\* threshold
C7_Witness ==
    /\ BuildDone
    /\ Len(last.response.ids) > 0
    /\ NothingPasses(last.response)
    /\ last.returned.chunks_used = 0

HasDocId(r, doc_id) == "doc_id" \in DOMAIN r.metadata /\ r.metadata.doc_id = doc_id

\* C8: delete_document(doc_id) removes exactly the records whose metadata
\* doc_id is the argument: none of them remains (a query restricted to the
\* doc_id returns nothing), every other record is unchanged, and for a doc_id
\* without records it changes nothing and raises nothing.
C8_DeleteDocumentExact ==
    last.op = "delete_document" =>
        /\ last.error = "none"
        /\ \A i \in 1..Len(records) : ~HasDocId(records[i], last.doc_id)
        /\ \A q \in Queries :
              CollectionQuery(records, Encode(q), MaxResults, [doc_id |-> last.doc_id]).ids = <<>>
        /\ records = SelectSeq(last.before, LAMBDA r : ~HasDocId(r, last.doc_id))

\* a delete_document that removed records and left records of another document
C8_Witness ==
    /\ last.op = "delete_document"
    /\ \E i \in 1..Len(last.before) : HasDocId(last.before[i], last.doc_id)
    /\ Len(records) > 0

\* the operations C9 names: the index operations and a query issued through
\* a Retriever that holds the indexer
IndexOperations ==
    {"index_document", "delete_document", "get_collection_stats",
     "retrieve", "retrieve_and_build_context"}

\* C9: an index operation that follows a successful delete_collection does
\* not fail, and a query then runs against the recreated, empty collection.
C9_OperationsAfterDeleteCollection ==
    [][(/\ last.op = "delete_collection"
        /\ last.error = "none"
        /\ last'.op \in IndexOperations)
         => /\ last'.error = "none"
            /\ last'.op \in {"retrieve", "retrieve_and_build_context"}
                  => last'.response.ids = <<>>]_vars

StoredUnder(id) == {records[i] : i \in {n \in 1..Len(records) : records[n].id = id}}

\* C10 as claimed: after index_document wrote a chunk id, the record stored
\* under that id is the one this (the last) write carried.
C10_LastWriteWins ==
    last.op = "index_document" =>
        \A b \in 1..Len(last.adds) : \A i \in 1..Len(last.adds[b]) :
            StoredUnder(last.adds[b][i].id) = {last.adds[b][i]}


\* the metadata keys index_document reserves
ReservedKeys == {"chunk_index", "source_file", "doc_id"}

\* the records the last index_document handed to collection.add, in order
AddedRecords == Concat(last.adds)

\* C11: every record index_document hands to the index, with or without an
\* embedding generator, has metadata holding chunk_index, source_file and
\* doc_id, equal to the chunk's position, the chunk's source file and the
\* document's doc_id; these win over same-named keys of the chunk's metadata,
\* and every other key of the chunk's metadata is kept.  Every stored record
\* has the three keys.
C11_ReservedMetadata ==
    /\ \A n \in 1..Len(records) : ReservedKeys \subseteq DOMAIN records[n].metadata
    /\ last.op = "index_document" =>
          \A n \in 1..Len(AddedRecords) :
              LET rec == AddedRecords[n]
                  chunk == last.chunks[n]
              IN /\ rec.id = chunk.chunk_id
                 /\ DOMAIN rec.metadata = DOMAIN chunk.metadata \cup ReservedKeys
                 /\ rec.metadata.chunk_index = n - 1
                 /\ rec.metadata.source_file = chunk.source_file
                 /\ rec.metadata.doc_id = last.doc_id
                 /\ \A k \in DOMAIN chunk.metadata \ ReservedKeys :
                       rec.metadata[k] = chunk.metadata[k]

\* both paths have stored a record of a chunk whose own metadata had a doc_id
\* and a chunk_index of its own, different from the reserved values
C11_Witness ==
    /\ last.op = "index_document"
    /\ last.error = "none"
    /\ last.with_embeddings
    /\ \E n \in 1..Len(AddedRecords) :
          /\ "doc_id" \in DOMAIN last.chunks[n].metadata
          /\ last.chunks[n].metadata.doc_id # last.doc_id
          /\ last.chunks[n].metadata.chunk_index # n - 1
          /\ "title" \in DOMAIN AddedRecords[n].metadata
          /\ \E m \in 1..Len(records) : records[m] = AddedRecords[n]
    /\ \E m \in 1..Len(records) : records[m].metadata.doc_id = "d2"

(***************************************************************************)
(* Claims about chunk_document, checked under SpecChunk.                   *)
(***************************************************************************)
\* C12: a second chunk_document call on the same document with the same
\* chunker leaves the chunk sequence (count, contents, ids, indices) as the
\* first call left it.
C12_IdempotentChunking ==
    [][(chunk_calls >= 1 /\ chunk_calls' = chunk_calls + 1)
          => document'.chunks = document.chunks]_vars

\* a document of several chunks has been chunked twice
C12_Witness ==
    /\ chunk_calls = 2
    /\ Len(document.chunks) >= 2

\* C14: after chunk_document the chunk at 0-based position i has
\* chunk_index i, chunk_id doc_id + "_chunk_" + i and the document's
\* source_file, so the chunk ids of one document are pairwise distinct.
C14_ChunkIdentity ==
    chunk_calls > 0 =>
        /\ \A n \in 1..Len(document.chunks) :
              /\ document.chunks[n].chunk_index = n - 1
              /\ document.chunks[n].chunk_id = ChunkId(document.doc_id, n - 1)
              /\ document.chunks[n].source_file = document.source_file
        /\ \A m, n \in 1..Len(document.chunks) :
              m # n => document.chunks[m].chunk_id # document.chunks[n].chunk_id

\* a chunked document of at least three chunks, two of them of equal content
C14_Witness ==
    /\ chunk_calls > 0
    /\ Len(document.chunks) >= 3
    /\ \E m, n \in 1..Len(document.chunks) :
          m # n /\ document.chunks[m].content = document.chunks[n].content

(***************************************************************************)
(* Claims about a document and its chunks, checked under SpecDoc.          *)
(***************************************************************************)
\* C13: chunk_document on a document whose content is empty leaves it with
\* an empty chunk sequence.
C13_EmptyDocumentNoChunks ==
    [][(chunk_calls' = chunk_calls + 1 /\ document.content = <<>>)
          => document'.chunks = <<>>]_vars

\* what a reader sees as the metadata of each chunk
ChunkMetas(doc, h) ==
    [n \in 1..Len(doc.chunks) |-> ResolvedMeta(doc.chunks[n].metadata, h)]

\* C15: an edit of the document's metadata changes the metadata of no chunk,
\* and an edit of one chunk's metadata changes neither the metadata of another
\* chunk nor the document's.
C15_MetadataIsolated ==
    [][/\ DocumentEdit => ChunkMetas(document', heap') = ChunkMetas(document, heap)
       /\ \A i \in ChunkPositions :
             ChunkEdit(i) =>
                /\ ResolvedMeta(document'.metadata, heap')
                      = ResolvedMeta(document.metadata, heap)
                /\ \A j \in 1..Len(document.chunks) :
                      j # i => ChunkMetas(document', heap')[j]
                                  = ChunkMetas(document, heap)[j]]_vars

(***************************************************************************)
(* Claims about the query retrieve issues, checked under Spec.             *)
(***************************************************************************)
\* C16: a retrieve call issues exactly one index query, with n_results =
\* max_results, the caller's filter_criteria, and an include list holding
\* "metadatas" iff include_metadata and "documents" iff include_documents;
\* with an embedding generator the generator is called once, with the
\* transformed query (equal to the input), and the query is made by its
\* vector; without one it is made by the query text and nothing is embedded.
C16_QueryArguments ==
    RetrieveDone =>
        /\ Len(last.queries) = 1
        /\ last.queries[1].n_results = retriever.max_results
        /\ last.queries[1].where = last.filter_criteria
        /\ \A f \in {"metadatas", "documents"} :
              (\E i \in 1..Len(last.queries[1].include) : last.queries[1].include[i] = f)
                 <=> IF f = "metadatas" THEN last.include_metadata
                                        ELSE last.include_documents
        /\ Len(last.queries[1].include)
              = (IF last.include_metadata THEN 1 ELSE 0)
                + (IF last.include_documents THEN 1 ELSE 0)
        /\ IF retriever.embedding_generator
           THEN /\ last.embedded = <<last.query>>
                /\ last.queries[1].by = "query_embeddings"
                /\ last.queries[1].query = Encode(last.query)
           ELSE /\ last.embedded = <<>>
                /\ last.queries[1].by = "query_texts"
                /\ last.queries[1].query = last.query

\* a retrieve with a generator, a filter, metadata asked for and documents not
C16_Witness ==
    /\ RetrieveDone
    /\ retriever.embedding_generator
    /\ last.filter_criteria # NoFilter
    /\ last.include_metadata
    /\ ~last.include_documents
    /\ Len(last.results) > 0
    /\ retriever.max_results > 1

(***************************************************************************)
(* Claims about construction and first use, checked under SpecBackend.     *)
(***************************************************************************)
\* C17: over any sequence of embed calls on one EmbeddingGenerator the model
\* is instantiated at most once: not at construction, on the first call that
\* gets to load_model, and kept by every later call; the model of one
\* instance is not the model of another.
C17_LazyModelLoad ==
    \A g \in Generators :
        /\ generators[g].loads <= 1
        /\ (generators[g].model = NoModel) <=> (generators[g].loads = 0)
        /\ ~generators[g].built => generators[g].loads = 0
        /\ (last.op = "EmbeddingGenerator" /\ last.generator = g)
              => generators[g].loads = 0
        /\ (last.op \in EmbedOps /\ last.generator = g /\ last.error = "none"
              /\ last.needs_model) => generators[g].model = <<g, 1>>
        /\ \A h \in Generators \ {g} :
              generators[g].model # NoModel => generators[h].model # generators[g].model

\* both generators have loaded their model, and the last call found the
\* model of its generator loaded and used it
C17_Witness ==
    /\ \A g \in Generators : generators[g].loads = 1
    /\ last.op \in EmbedOps
    /\ last.error = "none"
    /\ last.needs_model
    /\ last.loaded_before

IndexerOps == {"index_document", "delete_document", "get_collection_stats",
               "delete_collection"}

\* C18: without a backend, constructing an EmbeddingGenerator or a
\* VectorStoreIndexer raises nothing, and the operation that needs the backend
\* fails with the error that names the missing package: an embed call that
\* gets to the model, and index_document, delete_document,
\* get_collection_stats and delete_collection.
C18_BackendUnavailable ==
    /\ last.op \in {"EmbeddingGenerator", "VectorStoreIndexer"} => last.error = "none"
    /\ (~backend.chromadb /\ last.op \in IndexerOps) => last.error = "ImportError"
    /\ (~backend.sentence_transformers /\ last.op \in EmbedOps /\ last.needs_model)
          => last.error = "ImportError"
    /\ (~backend.sentence_transformers /\ backend.chromadb
          /\ last.op = "index_document" /\ "chunks" \in DOMAIN last
          /\ last.with_embeddings /\ Len(last.chunks) > 0)
          => last.error = "ImportError"
    /\ ~backend.chromadb => ~client /\ ~collection
    /\ ~backend.sentence_transformers =>
          \A g \in Generators : generators[g].model = NoModel

\* neither backend is installed, a generator and the indexer were constructed
\* all the same, and an indexer operation has failed on first use
C18_Witness ==
    /\ ~backend.chromadb
    /\ ~backend.sentence_transformers
    /\ indexer_built
    /\ \E g \in Generators : generators[g].built
    /\ last.op = "get_collection_stats"
    /\ last.error = "ImportError"

(***************************************************************************)
(* Claims about repeated and concurrent retrieval.                         *)
(***************************************************************************)
\* retrieve and retrieve_and_build_context leave the indexed records as they
\* are
RetrievalLeavesIndex ==
    [][last'.op \in {"retrieve", "retrieve_and_build_context"}
          => records' = records /\ db_exists' = db_exists]_vars

\* C19: retrieval has no effect on the index and keeps no state: a retrieve
\* call with the arguments of an earlier one, on an index holding the same
\* records, returns what the earlier one returned, whatever calls were made
\* in between.  Checked under SpecRecall.
C19_RetrievalRepeatable ==
    (/\ last.op = "retrieve"
     /\ memo.remembered
     /\ memo.args = <<last.query, last.filter_criteria, last.include_metadata,
                      last.include_documents, last.rerank>>
     /\ memo.records = records)
        => memo.seen = Seen(last)

\* what retrieve(query) returns when no other call is running: the results
\* over the persisted records
AloneSeen(query) ==
    [error |-> "none",
     results |-> RetrieveResults(
                    CollectionQuery(records, Encode(TransformQuery(query)),
                                    retriever.max_results, NoFilter),
                    retriever.similarity_threshold, TRUE, TRUE, FALSE)]

\* C20: of two retrieve calls running at once on one Retriever, each returns
\* what it returns when run alone, and neither fails because of the other.
\* Checked under SpecConcurrent.
C20_ConcurrentRetrieve ==
    \A t \in DOMAIN threads :
        threads[t].pc = "done" => threads[t].seen = AloneSeen(threads[t].query)

(***************************************************************************)
(* C23: the statistics get_collection_stats reports                        *)
(***************************************************************************)
StatsDone == last.op = "get_collection_stats" /\ last.error = "none"

\* the stored records whose metadata holds value under key
Holding(key, value) ==
    {i \in 1..Len(records) :
        key \in DOMAIN records[i].metadata /\ records[i].metadata[key] = value}

\* the values some stored record holds under key
Held(key) ==
    {records[i].metadata[key] :
        i \in {n \in 1..Len(records) : key \in DOMAIN records[n].metadata}}

\* the sum of the counts of a frequency table
RECURSIVE TableSum(_)
TableSum(table) ==
    IF DOMAIN table = {} THEN 0
    ELSE LET v == CHOOSE x \in DOMAIN table : TRUE
         IN table[v] + TableSum([w \in DOMAIN table \ {v} |-> table[w]])

\* a frequency table has one entry per value held under key, counting the
\* records that hold it
IsFrequencyTable(table, key) ==
    /\ DOMAIN table = Held(key)
    /\ \A v \in DOMAIN table : table[v] = Cardinality(Holding(key, v))

\* C23: in the statistics get_collection_stats reports, total_chunks is the
\* number of stored records, total_documents is the number of distinct doc_id
\* values among their metadata, and content_types and categories are frequency
\* tables of those metadata values; so total_documents is at most total_chunks
\* and the counts of each table sum to at most total_chunks.
C23_CollectionStats ==
    StatsDone =>
        LET stats == last.stats
        IN /\ stats.total_chunks = Len(records)
           /\ stats.total_documents = Cardinality(Held("doc_id"))
           /\ IsFrequencyTable(stats.content_types, "content_type")
           /\ IsFrequencyTable(stats.categories, "category")
           /\ stats.total_documents <= stats.total_chunks
           /\ TableSum(stats.content_types) <= stats.total_chunks
           /\ TableSum(stats.categories) <= stats.total_chunks

\* statistics over three chunks of two documents, one of them without category
C23_Witness ==
    /\ StatsDone
    /\ last.stats.total_chunks = 3
    /\ last.stats.total_documents = 2
    /\ DOMAIN last.stats.categories = {"faq"}
    /\ last.stats.categories["faq"] = 2

(***************************************************************************)
(* C24: the insert calls of index_document                                 *)
(***************************************************************************)
IndexDone ==
    /\ last.op = "index_document"
    /\ last.error = "none"

\* ceil(n / b)
CeilDiv(n, b) == (n + b - 1) \div b

\* C24: an index_document call with batch size b on a document of n chunks,
\* none of whose inserts raises, issues ceil(n / b) insert calls; every call
\* carries at least one and at most b records, each holding the id, the text
\* and the metadata of one chunk; the batches, concatenated in call order, are
\* the document's chunks in order; a document with no chunk issues no call.
C24_InsertBatches ==
    IndexDone =>
        LET n == Len(last.chunks)
            b == last.batch_size
        IN /\ Len(last.adds) = CeilDiv(n, b)
           /\ \A k \in 1..Len(last.adds) :
                  /\ Len(last.adds[k]) >= 1
                  /\ Len(last.adds[k]) <= b
                  /\ k < Len(last.adds) => Len(last.adds[k]) = b
           /\ Len(AddedRecords) = n
           /\ \A i \in 1..n :
                  /\ AddedRecords[i].id = last.chunks[i].chunk_id
                  /\ AddedRecords[i].document = last.chunks[i].content
                  /\ AddedRecords[i].metadata.chunk_index = last.chunks[i].chunk_index
           /\ n = 0 => last.adds = <<>>

\* two chunks in two calls of one record each
C24_Witness ==
    /\ IndexDone
    /\ last.batch_size = 1
    /\ Len(last.chunks) = 2
    /\ Len(last.adds) = 2

(***************************************************************************)
(* C27: what the index holds for a document after index_document           *)
(***************************************************************************)
\* the positions of the stored records of a document
RecordsOfDocument(doc_id) ==
    {i \in 1..Len(records) : HasDocId(records[i], doc_id)}

\* C27: after an index_document call that returned, the stored records whose
\* doc_id is the document's are exactly one per chunk of the document as it was
\* indexed, each under the chunk's id and with the chunk's text: no record of
\* an earlier version of the document is left among them.
C27_IndexHoldsCurrentChunks ==
    IndexDone =>
        /\ Cardinality(RecordsOfDocument(last.doc_id)) = Len(last.chunks)
        /\ \A i \in RecordsOfDocument(last.doc_id) :
               \E n \in 1..Len(last.chunks) :
                   /\ records[i].id = last.chunks[n].chunk_id
                   /\ records[i].document = last.chunks[n].content

(***************************************************************************)
(* C26: no empty chunk                                                     *)
(***************************************************************************)
\* C26: for a text that is not empty, and a chunk size of at least one,
\* _split_text returns no chunk that is the empty string.
C26_NoEmptyChunk ==
    (split_result.called /\ Len(document.content) > 0 /\ chunker.chunk_size >= 1) =>
        \A i \in 1..Len(split_result.chunks) : Len(split_result.chunks[i]) > 0

(***************************************************************************)
(* Documents of different content indexed into one collection, some built  *)
(* without a doc_id, some loaded.                                          *)
(***************************************************************************)
\* Document.__post_init__ (lines 39-43): the id is the MD5 digest of the
\* content; the content stands for its digest, no two contents sharing one
DocumentId(doc) == doc.content

\* Document(content=...) leaves doc_id and source_file at their default, the
\* empty string; a loaded document has both
BuiltDocument(content) ==
    [content |-> content, metadata |-> EmptyMeta, source_file |-> <<>>,
     doc_id |-> "", chunks |-> <<>>]
LoadedDocument(doc_id, content) ==
    [content |-> content, metadata |-> [title |-> "T"],
     source_file |-> SourceFile(doc_id), doc_id |-> doc_id, chunks |-> <<>>]

\* the documents indexed: one built in memory for each text, and two loaded
\* from two files of different content
IdentityTexts == RagTexts \ {<<>>}
IdentityDocs ==
    {BuiltDocument(c) : c \in IdentityTexts}
    \cup {LoadedDocument("d1", <<"a">>),
          LoadedDocument("d2", <<"b", Space, "b", Newline, "a">>)}

\* the document as index_document receives it: chunked by its caller or not
AsHanded(doc, prechunked) ==
    IF prechunked THEN ChunkDocumentResult(doc, 4, 0, <<Newline>>) ELSE doc

IdentityInit ==
    /\ ChunkerAtRest
    /\ EnvironmentAtRest
    /\ client = FALSE
    /\ collection = FALSE
    /\ db_exists = FALSE
    /\ records = <<>>
    /\ dup_policy \in DupPolicies
    /\ retriever = [embedding_generator |-> FALSE, max_results |-> MaxResults,
                    similarity_threshold |-> 6]
    /\ last = NoOp

\* index_document, with the ids it hands to collection.add remembered together
\* with the id of the document
OwnedIndexDocument(doc, prechunked, batch_size) ==
    /\ IndexDocumentCall(AsHanded(doc, prechunked), FALSE, batch_size)
    /\ memo' = [memo EXCEPT !.written =
                    @ \cup {<<Concat(last'.adds)[i].id, DocumentId(doc)>> :
                               i \in 1..Len(Concat(last'.adds))}]

IdentityNext ==
    \/ \E doc \in IdentityDocs, p \in BOOLEAN, b \in 1..MaxBatch :
          OwnedIndexDocument(doc, p, b)
    \/ \E d \in DocIds \cup {""} : DeleteDocument(d)
    \/ GetCollectionStats

SpecIdentity == IdentityInit /\ [][IdentityNext]_vars

\* C30: no chunk id handed to the index was handed to it for two documents of
\* different identity (different content, hence different Document.id),
\* whether the documents were built without a doc_id or loaded.
C30_ChunkIdsPerDocument ==
    \A p \in memo.written, q \in memo.written : p[1] = q[1] => p[2] = q[2]

(***************************************************************************)
(* C29: the response fields retrieve reads and the ones it asks for        *)
(***************************************************************************)
\* lines 122-126: ids and distances are read from every response, metadatas
\* and documents when the caller's flags say so
FieldsRead(include_metadata, include_documents) ==
    {"ids", "distances"}
    \cup (IF include_metadata THEN {"metadatas"} ELSE {})
    \cup (IF include_documents THEN {"documents"} ELSE {})

\* the fields an include list names
Named(include) == {include[i] : i \in 1..Len(include)}

\* C29: every response field a retrieve call reads, ids excepted, is named in
\* the include list of the query it issued; in particular the list names the
\* distances from which the similarity scores are computed.
C29_ReadsWhatItAskedFor ==
    RetrieveDone =>
        FieldsRead(last.include_metadata, last.include_documents) \ {"ids"}
            \subseteq Named(last.call.include)

(***************************************************************************)
(* A Retriever built without an indexer: retrieve constructs the default   *)
(* VectorStoreIndexer on first use (retriever.py lines 81-83), with either *)
(* backend installed or not.                                               *)
(***************************************************************************)
LazyInit ==
    /\ ChunkerAtRest
    /\ backend \in [sentence_transformers : BOOLEAN, chromadb : BOOLEAN]
    /\ generators = [g \in Generators |-> Fresh]
    /\ indexer_built = FALSE
    /\ memo = NoMemo
    /\ threads = NoThreads
    /\ client = FALSE
    /\ collection = FALSE
    /\ records \in PersistedRecords
    /\ db_exists = (Len(records) > 0)
    /\ dup_policy = "ignore"
    /\ retriever \in [embedding_generator : BOOLEAN,
                      max_results : {MaxResults},
                      similarity_threshold : Thresholds]
    /\ last = NoOp

\* what the caller passed to retrieve
RetrieveArguments(query, where, include_metadata, include_documents, rerank) ==
    [op |-> "retrieve", query |-> query, filter_criteria |-> where,
     include_metadata |-> include_metadata,
     include_documents |-> include_documents, rerank |-> rerank]

\* retrieve on a Retriever whose indexer is None: line 82 assigns the new
\* VectorStoreIndexer to self.indexer, line 83 calls its _get_collection, which
\* raises in _initialize_client or while building the embedding function, or
\* sets the collection; then the query runs as in any retrieve call
FirstRetrieve(query, where, include_metadata, include_documents, rerank) ==
    LET args == RetrieveArguments(query, where, include_metadata,
                                  include_documents, rerank)
    IN /\ ~indexer_built
       /\ indexer_built' = TRUE
       /\ \/ /\ InitializeClientError(backend.chromadb) # "none"
             /\ last' = Merge(args, [error |-> InitializeClientError(backend.chromadb),
                                     constructing |-> TRUE])
             /\ UNCHANGED <<client, collection, db_exists, generators>>
          \/ /\ InitializeClientError(backend.chromadb) = "none"
             /\ "ValueError" \in EmbeddingFunctionErrors
             /\ client' = TRUE
             /\ last' = Merge(args, [error |-> "ValueError", constructing |-> TRUE])
             /\ UNCHANGED <<collection, db_exists, generators>>
          \/ /\ InitializeClientError(backend.chromadb) = "none"
             /\ EnsureCollection
             /\ LET got == RetrieveOutcomeOn(TRUE, query, where, include_metadata,
                                             include_documents, rerank)
                IN /\ generators' = got.generators
                   /\ last' = Merge(Observed(got), args)
       /\ UNCHANGED <<records, dup_policy, retriever, chunkVars, backend, memo, threads>>

\* retrieve on a Retriever whose indexer is set
LaterRetrieve(query, where, include_metadata, include_documents, rerank) ==
    /\ indexer_built
    /\ Retrieve(query, where, include_metadata, include_documents, rerank)

LazyNext ==
    \E q \in Queries, f \in Filters, flags \in RetrieveFlags :
        \/ FirstRetrieve(q, f, flags[1], flags[2], flags[3])
        \/ LaterRetrieve(q, f, flags[1], flags[2], flags[3])

SpecLazy == LazyInit /\ [][LazyNext]_vars

\* the last retrieve call failed while constructing the default indexer
FailedConstructing ==
    /\ last.op = "retrieve"
    /\ "constructing" \in DOMAIN last
    /\ last.error # "none"

\* C28: a retrieve call that fails while constructing the default indexer
\* leaves the Retriever as it was, without an indexer, and the retrieve call
\* that follows it fails with the same error.
C28_FailedConstructionRepeats ==
    [][(FailedConstructing /\ last'.op = "retrieve")
          => (~indexer_built /\ last'.error = last.error)]_vars

(***************************************************************************)
(* The loop of _split_text section by section, with a separator of one or  *)
(* of two characters.                                                      *)
(***************************************************************************)
CarryChars == {"a", Newline}
CarryTexts == SeqsUpTo(CarryChars, MaxTextLen + 2)
CarrySeparators == {<<Newline>>, <<Newline, Newline>>}

CarryInit ==
    /\ chunker \in [chunk_size : 1..(2 * MaxChunkSize),
                    chunk_overlap : 0..(MaxOverlap + 1),
                    separator : CarrySeparators]
    /\ \E content \in CarryTexts :
          document = [content |-> content, metadata |-> EmptyMeta,
                      source_file |-> SourceFile("d1"), doc_id |-> "d1",
                      chunks |-> <<>>]
    /\ split_result = NotCalled
    /\ chunk_calls = 0
    /\ heap = EmptyHeap
    /\ IndexerAtRest

\* lines 363-369: the sections, an empty buffer
EnterSplitText ==
    /\ split_result = NotCalled
    /\ split_result' = [called |-> FALSE, chunks |-> <<>>,
                        st |-> [chunks |-> <<>>, cur |-> <<>>, size |-> 0],
                        sections |-> PySplit(document.content, chunker.separator),
                        flush |-> <<>>]
    /\ UNCHANGED <<chunker, document, chunk_calls, heap, ragVars>>

\* the branch of line 401: a section no longer than chunk_size that does not
\* fit in the buffer
FlushesBuffer(st, section, chunk_size, sep) ==
    /\ Len(section) <= chunk_size
    /\ st.size + Len(section) + Len(sep) > chunk_size

\* one iteration of the loop of line 371; flush holds, when the iteration took
\* the branch of line 401, the buffer before it, the section and the buffer
\* after it
NextSection ==
    /\ "sections" \in DOMAIN split_result
    /\ Len(split_result.sections) > 0
    /\ LET section == split_result.sections[1]
           st == split_result.st
           after == SplitStep(st, section, chunker.chunk_size,
                              chunker.chunk_overlap, chunker.separator)
       IN split_result' =
            [split_result EXCEPT
                !.st = after,
                !.sections = Tail(split_result.sections),
                !.flush = IF FlushesBuffer(st, section, chunker.chunk_size,
                                           chunker.separator)
                          THEN <<[flushed |-> st.cur, section |-> section,
                                  buffer |-> after.cur]>>
                          ELSE <<>>]
    /\ UNCHANGED <<chunker, document, chunk_calls, heap, ragVars>>

\* lines 430-434: the last chunk, and the return
ReturnChunks ==
    /\ "sections" \in DOMAIN split_result
    /\ Len(split_result.sections) = 0
    /\ LET st == split_result.st
       IN split_result' =
            [called |-> TRUE,
             chunks |-> IF Len(st.cur) > 0
                        THEN Append(st.chunks, PyJoin(chunker.separator, st.cur))
                        ELSE st.chunks]
    /\ UNCHANGED <<chunker, document, chunk_calls, heap, ragVars>>

CarryNext == EnterSplitText \/ NextSection \/ ReturnChunks

SpecCarry == CarryInit /\ [][CarryNext]_vars

\* the loop, run section by section, returns what _split_text returns
StepwiseAgrees ==
    split_result.called =>
        split_result.chunks = SplitText(document.content, chunker.chunk_size,
                                        chunker.chunk_overlap, chunker.separator)

(***************************************************************************)
(* C25: the overlap carried into the chunk that follows a flush            *)
(***************************************************************************)
\* text[-n:] for n > 0
LastChars(text, n) == SubSeq(text, Max0(Len(text) - n) + 1, Len(text))

\* sep occurs in text
Occurs(sep, text) == \E p \in 1..Len(text) : StartsWithAt(text, p, sep)

\* tail is the last Len(tail) elements of seq
IsTailOf(tail, seq) ==
    /\ Len(tail) <= Len(seq)
    /\ tail = SubSeq(seq, Len(seq) - Len(tail) + 1, Len(seq))

\* C25: when _split_text flushes the buffer because the next section, itself
\* no longer than chunk_size, does not fit, the new buffer is a run of whole
\* trailing sections of the flushed buffer followed by the new section; the
\* carried text is a suffix of the flushed chunk, shorter than chunk_overlap,
\* and there is none when chunk_overlap is 0 or the last chunk_overlap
\* characters of the flushed chunk hold no separator.
C25_OverlapCarry ==
    ("flush" \in DOMAIN split_result) =>
        \A k \in 1..Len(split_result.flush) :
            LET f == split_result.flush[k]
                sep == chunker.separator
                carried == SubSeq(f.buffer, 1, Len(f.buffer) - 1)
                flushed_chunk == PyJoin(sep, f.flushed)
                carried_text == PyJoin(sep, carried)
            IN /\ Len(f.buffer) >= 1
               /\ f.buffer[Len(f.buffer)] = f.section
               /\ IsTailOf(carried, f.flushed)
               /\ IsTailOf(carried_text, flushed_chunk)
               /\ Len(carried) > 0 => Len(carried_text) < chunker.chunk_overlap
               /\ (\/ chunker.chunk_overlap = 0
                   \/ ~Occurs(sep, LastChars(flushed_chunk, chunker.chunk_overlap)))
                       => carried = <<>>

\* the position in text just after the first occurrence of sep, 0 when none
AfterFirst(sep, text) ==
    IF Occurs(sep, text)
    THEN (CHOOSE p \in 1..Len(text) :
             /\ StartsWithAt(text, p, sep)
             /\ \A q \in 1..(p - 1) : ~StartsWithAt(text, q, sep)) + Len(sep)
    ELSE 0

\* C25, amended: when _split_text flushes the buffer because the next section,
\* itself no longer than chunk_size, does not fit, the new buffer is the carried
\* sections followed by the new section.  The carried text is what follows the
\* first separator in the last chunk_overlap characters of the flushed chunk:
\* a suffix of the flushed chunk, shorter than chunk_overlap, that begins right
\* after a separator of the flushed chunk; there is none when chunk_overlap is
\* 0 or those characters hold no separator.  With a separator of one character
\* the carried sections are whole trailing sections of the flushed buffer; with
\* a longer one the carried text may begin inside a section.
C25_OverlapCarryAfterSeparator ==
    ("flush" \in DOMAIN split_result) =>
        \A k \in 1..Len(split_result.flush) :
            LET f == split_result.flush[k]
                sep == chunker.separator
                carried == SubSeq(f.buffer, 1, Len(f.buffer) - 1)
                flushed_chunk == PyJoin(sep, f.flushed)
                carried_text == PyJoin(sep, carried)
                window == LastChars(flushed_chunk, chunker.chunk_overlap)
                none == \/ chunker.chunk_overlap = 0
                        \/ ~Occurs(sep, window)
            IN /\ Len(f.buffer) >= 1
               /\ f.buffer[Len(f.buffer)] = f.section
               /\ none => carried = <<>>
               /\ ~none =>
                     /\ Len(carried) >= 1
                     /\ carried_text = SubSeq(window, AfterFirst(sep, window),
                                              Len(window))
                     /\ carried = PySplit(carried_text, sep)
                     /\ IsTailOf(carried_text, flushed_chunk)
                     /\ Len(carried_text) < chunker.chunk_overlap
                     /\ StartsWithAt(flushed_chunk,
                                     Len(flushed_chunk) - Len(carried_text)
                                         - Len(sep) + 1, sep)
                     /\ Len(sep) = 1 => IsTailOf(carried, f.flushed)

\* a flush that carries text over, from a window holding more than the carry
C25_Witness ==
    /\ "flush" \in DOMAIN split_result
    /\ Len(split_result.flush) = 1
    /\ Len(split_result.flush[1].buffer) = 2
    /\ Len(split_result.flush[1].buffer[1]) > 0
    /\ chunker.chunk_overlap > Len(split_result.flush[1].buffer[1]) + Len(chunker.separator)

(***************************************************************************)
(* MessageEntityExtractor.forward (dspy_modules/modules.py): the five      *)
(* fields of the prediction are JSON texts, parsed into the result.        *)
(***************************************************************************)
EntityFields == {"locations", "people", "dates", "topics", "keywords"}

\* the texts a prediction field holds, as sequences of tokens: "[" and "]",
\* "," and the string literal "s"; an empty list, a list of one string, a
\* single string (valid JSON that is not a list), and a text that is not JSON
EntityTexts == {<<"[", "]">>, <<"[", "s", "]">>, <<"s">>, <<"s", "]">>}

\* the items between the brackets: string literals separated by commas
RECURSIVE IsItems(_)
IsItems(tokens) ==
    \/ tokens = <<"s">>
    \/ /\ Len(tokens) >= 3
       /\ tokens[1] = "s"
       /\ tokens[2] = ","
       /\ IsItems(SubSeq(tokens, 3, Len(tokens)))

\* json.loads(text): a list, a string, or JSONDecodeError
JsonLoads(text) ==
    IF text = <<"s">>
    THEN [error |-> "none", value |-> [type |-> "str", items |-> <<"s">>]]
    ELSE IF Len(text) >= 2 /\ text[1] = "[" /\ text[Len(text)] = "]"
            /\ (Len(text) = 2 \/ IsItems(SubSeq(text, 2, Len(text) - 1)))
    THEN [error |-> "none",
          value |-> [type |-> "list",
                     items |-> SelectSeq(SubSeq(text, 2, Len(text) - 1),
                                         LAMBDA t : t = "s")]]
    ELSE [error |-> "JSONDecodeError"]

EmptyList == [type |-> "list", items |-> <<>>]

\* lines 100-114: the five json.loads calls share one try block, whose handler
\* sets all five names to []
ForwardResult(prediction) ==
    IF \E f \in EntityFields : JsonLoads(prediction[f]).error # "none"
    THEN [f \in EntityFields |-> EmptyList]
    ELSE [f \in EntityFields |-> JsonLoads(prediction[f]).value]

ExtractorInit ==
    /\ ChunkerAtRest
    /\ IndexerAtRest

\* MessageEntityExtractor.forward(message), the predictor returning prediction
Forward(prediction) ==
    /\ last' = [op |-> "forward", error |-> "none", prediction |-> prediction,
                result |-> ForwardResult(prediction)]
    /\ UNCHANGED <<chunkVars, client, collection, db_exists, records, dup_policy,
                   retriever, generators, restVars>>

ExtractorNext == \E prediction \in [EntityFields -> EntityTexts] : Forward(prediction)

SpecExtractor == ExtractorInit /\ [][ExtractorNext]_vars

\* C22: forward raises no error; a field whose text is not valid JSON comes
\* back as the empty list, a field whose text parses comes back with its
\* parsed value, and every field of the result is a list.
C22_FieldsRecovered ==
    last.op = "forward" =>
        /\ last.error = "none"
        /\ \A f \in EntityFields :
              LET parsed == JsonLoads(last.prediction[f])
              IN /\ parsed.error # "none" => last.result[f] = EmptyList
                 /\ parsed.error = "none" => last.result[f] = parsed.value
                 /\ last.result[f].type = "list"

(***************************************************************************)
(* DocumentLoader.load_document and load_directory.  A file is its path    *)
(* below the directory, its name, its suffix, and whether its parser       *)
(* accepts its content.                                                    *)
(***************************************************************************)
supported_extensions == {".md", ".json", ".yaml", ".yml", ".txt"}

\* the names load_directory leaves out (line 296)
TemplateNames == {"template.md", "template.json", "template.yaml", "template.yml"}
SkippedNames == TemplateNames \cup {"README.md"}

\* str.lower() on the suffixes that occur
LowerSuffix(suffix) == IF suffix = ".MD" THEN ".md" ELSE suffix

File(path, name, suffix, depth, parses) ==
    [path |-> path, name |-> name, suffix |-> suffix, depth |-> depth,
     parses |-> parses]

\* the files a directory may hold: documents that parse, one whose JSON is
\* broken, a template, a README, a file of unsupported format, one in a
\* subdirectory
LoaderFiles ==
    {File("a.md", "a.md", ".md", 0, TRUE),
     File("B.MD", "B.MD", ".MD", 0, TRUE),
     File("c.json", "c.json", ".json", 0, FALSE),
     File("template.md", "template.md", ".md", 0, TRUE),
     File("README.md", "README.md", ".md", 0, TRUE),
     File("e.xyz", "e.xyz", ".xyz", 0, TRUE),
     File("sub/f.txt", "f.txt", ".txt", 1, TRUE)}

\* load_document(file_path) (lines 66-92): the file must exist, its path must
\* lie below base_dir (relative_to raises ValueError otherwise), its suffix
\* must be a supported one, and its parser must accept it
LoadDocument(file, exists, under_base) ==
    IF ~exists THEN [error |-> "FileNotFoundError"]
    ELSE IF ~under_base THEN [error |-> "ValueError"]
    ELSE IF LowerSuffix(file.suffix) \notin supported_extensions
    THEN [error |-> "ValueError"]
    ELSE IF ~file.parses THEN [error |-> "ParseError"]
    ELSE [error |-> "none", doc_id |-> file.path, source_file |-> file.path]

\* directory.glob('**/*.*') or directory.glob('*.*')
Glob(files, recursive) == {f \in files : recursive \/ f.depth = 0}

\* line 296: the supported suffixes, without the templates and the README
Filtered(files) ==
    {f \in files : /\ LowerSuffix(f.suffix) \in supported_extensions
                   /\ f.name \notin SkippedNames}

RECURSIVE LoadFilesAborting(_, _, _)
\* a loop without the try: the first failure ends the call
LoadFilesAborting(files, under_base, acc) ==
    IF files = {} THEN acc
    ELSE LET f == CHOOSE x \in files : TRUE
             got == LoadDocument(f, TRUE, under_base)
         IN IF got.error = "none"
            THEN LoadFilesAborting(files \ {f}, under_base,
                    [acc EXCEPT !.documents = Append(@, got)])
            ELSE [acc EXCEPT !.error = got.error]

RECURSIVE LoadFiles(_, _, _)
\* lines 299-304: each file loaded inside a try, a failure logged; the files
\* are taken in the order glob gave them, here some fixed order
LoadFiles(files, under_base, acc) ==
    IF files = {} THEN acc
    ELSE LET f == CHOOSE x \in files : TRUE
             got == LoadDocument(f, TRUE, under_base)
         IN LoadFiles(files \ {f}, under_base,
                IF got.error = "none"
                THEN [acc EXCEPT !.documents = Append(@, got)]
                ELSE [acc EXCEPT !.logged = @ \cup {f.path}])

\* load_directory(directory, recursive) (lines 271-306)
LoadDirectoryResult(exists, files, recursive, under_base) ==
    IF ~exists THEN [error |-> "FileNotFoundError", documents |-> <<>>, logged |-> {}]
    ELSE LoadFiles(Filtered(Glob(files, recursive)), under_base,
                   [error |-> "none", documents |-> <<>>, logged |-> {}])

LoaderInit ==
    /\ ChunkerAtRest
    /\ IndexerAtRest

\* a load_document call on a file that exists or not
LoadDocumentCall(file, exists, under_base) ==
    /\ last' = [op |-> "load_document", file |-> file, exists |-> exists,
                under_base |-> under_base,
                error |-> LoadDocument(file, exists, under_base).error]
    /\ UNCHANGED <<chunkVars, client, collection, db_exists, records, dup_policy,
                   retriever, generators, restVars>>

\* a load_directory call on a directory that exists, holding files, or not
LoadDirectory(exists, files, recursive, under_base) ==
    /\ last' = Merge(LoadDirectoryResult(exists, files, recursive, under_base),
                     [op |-> "load_directory", exists |-> exists, files |-> files,
                      recursive |-> recursive, under_base |-> under_base])
    /\ UNCHANGED <<chunkVars, client, collection, db_exists, records, dup_policy,
                   retriever, generators, restVars>>

LoaderNext ==
    \/ \E f \in LoaderFiles, e \in BOOLEAN, u \in BOOLEAN : LoadDocumentCall(f, e, u)
    \/ \E files \in SUBSET LoaderFiles, r \in BOOLEAN, u \in BOOLEAN :
          LoadDirectory(TRUE, files, r, u)
    \/ \E r \in BOOLEAN : LoadDirectory(FALSE, {}, r, TRUE)

SpecLoader == LoaderInit /\ [][LoaderNext]_vars

(***************************************************************************)
(* C21: bulk loading skips the files that fail                             *)
(***************************************************************************)
\* the files of the call that load_directory is to consider, given the names
\* it leaves out
Considered(left_out) ==
    {f \in last.files :
        /\ last.recursive \/ f.depth = 0
        /\ LowerSuffix(f.suffix) \in supported_extensions
        /\ f.name \notin left_out}

Loads(f) == LoadDocument(f, TRUE, last.under_base).error = "none"

\* the paths of the documents returned
Returned == {last.documents[i].source_file : i \in 1..Len(last.documents)}

\* bulk loading with the given names left out: no error on an existing
\* directory, one document per considered file that loads, every considered
\* file that fails logged; not-found for a missing directory or file
BulkLoad(left_out) ==
    /\ (last.op = "load_directory" /\ last.exists) =>
          /\ last.error = "none"
          /\ Returned = {f.path : f \in {g \in Considered(left_out) : Loads(g)}}
          /\ Len(last.documents) = Cardinality(Returned)
          /\ last.logged = {f.path : f \in {g \in Considered(left_out) : ~Loads(g)}}
    /\ (last.op = "load_directory" /\ ~last.exists) =>
          last.error = "FileNotFoundError"
    /\ (last.op = "load_document" /\ ~last.exists) =>
          last.error = "FileNotFoundError"
    /\ (last.op = "load_document" /\ last.exists) =>
          last.error # "FileNotFoundError"

=========================================================================
